---- MODULE Spec2Model ----
(***************************************************************************)
(* Verification model of the Soso2e/Python_Tools repository.               *)
(*                                                                         *)
(* Parts, each with its own specification:                                 *)
(*   SpecMatch  - preset_manager.match_store_key as a pure function        *)
(*   SpecEncode - one call of encoder_core.run_encode on a file system     *)
(*   SpecPreset - upsert_store_mapping, load_preset and                    *)
(*                collect_category_options on a preset file                *)
(*   Spec       - the encoder GUI (ui_app.App) driving those calls         *)
(*   SpecCtrl   - Maya Controller Creator: create_controller_for_target    *)
(*   SpecShelf  - Maya drag-and-drop installers: _ensure_shelf_button      *)
(*   SpecInstall - Simple_Picker drag-and-drop installers: install_tool    *)
(*   SpecScaler - Maya CV_Scaler window: preview, apply and cancel         *)
(*   SpecRemover - Maya name_remover window: preview and bulk rename       *)
(*   SpecPicker - Maya Controller Picker window: its tabs and presets      *)
(*   SpecSequence - Unreal-side main.py: level sequences and bindings      *)
(*   SpecRemote - Houdini-side export_fbx.py and run_and_send_arguments    *)
(*                                                                         *)
(* Strings are sequences of one-character strings, so that str.strip and   *)
(* the substring test "k in s" are computed and not assumed.               *)
(***************************************************************************)
EXTENDS Integers, Sequences, FiniteSets, TLC

VARIABLES
    \* ---- SpecMatch: one call of match_store_key
    m_store,        \* the store_name argument
    m_preset,       \* the Preset argument (its store_mapping)
    m_result,       \* <<"unset">>, or the returned value: NoneVal or Some(k)
    \* ---- SpecEncode, SpecPreset, Spec: the encoder
    fs,             \* the file system: path -> file content (or Absent)
    csv_path,       \* App.csv_path
    yaml_path,      \* App.yaml_path
    check_ok,       \* App.check_ok
    unknown_stores, \* App.unknown_stores
    run_btn,        \* state of the 'TSV変換' button: TRUE = "normal"
    register_btn,   \* state of the '店舗を登録' button: TRUE = "normal"
    dlg,            \* the register dialog (Toplevel) is open
    sub_options,    \* App.sub_category_options
    yaml_btn,       \* state of the preset's '参照…' button: TRUE = "normal"
    last_check,     \* history: the check() made since the files were selected
    last,           \* history: the last operation and what it did
    \* ---- SpecCtrl: the Maya Controller Creator
    scene,          \* the Maya scene: DAG nodes and constraints
    c_job,          \* the running batch: its position and local variables
    c_log,          \* history: the create_controller_for_target calls of the batch
    \* ---- SpecShelf: the Maya drag-and-drop installers
    shelves,        \* the shelf UI: shelf name -> its child controls
    s_last,         \* history: the last installer call
    \* ---- SpecInstall: the Simple_Picker drag-and-drop installers
    tool_root,      \* the folder of the dropped installer file
    user_dir,       \* the user's scripts and modules folders
    i_last,         \* history: the last installer call and what it did
    \* ---- SpecScaler: the Maya CV_Scaler window
    cv_scene,       \* the scene: CVs of the shapes, clusters, selection
    cv_ui,          \* the module's _PREVIEW and the value of the slider
    cv_last,        \* history: the last action of the window and what it did
    \* ---- SpecRemover: the Maya name_remover window
    nr_scene,       \* the scene: name and lock of every node, selection
    nr_ui,          \* the fields of the window, and the open preview window
    nr_last,        \* history: the last action of the window and what it did
    \* ---- SpecPicker: the Maya Controller Picker window
    pk_ui,          \* the tab widget: its tabs in order and the current index
    pk_file,        \* the preset file that the file dialogs name
    pk_last,        \* history: the last action of the window and what it did
    \* ---- SpecSequence: the Unreal-side main.py
    ue_project,     \* the level sequences of the project: name -> its bindings in order
    ue_job,         \* the running main.py: its list, position and binding_name_list
    ue_log,         \* history: one entry for every FBX that main.py handled
    \* ---- SpecRemote: the Houdini-side export_fbx.py and remote_ctrl.py
    rc_exec,        \* the RemoteExecution object and what it did on the network
    rc_job          \* the running export script: its position and arguments

matchVars == <<m_store, m_preset, m_result>>
guiVars == <<csv_path, yaml_path, check_ok, unknown_stores, run_btn,
             register_btn, dlg, sub_options, yaml_btn, last_check>>
encVars == <<fs, guiVars, last>>
instVars == <<tool_root, user_dir, i_last>>
cvVars == <<cv_scene, cv_ui, cv_last>>
nrVars == <<nr_scene, nr_ui, nr_last>>
pkVars == <<pk_ui, pk_file, pk_last>>
ueVars == <<ue_project, ue_job, ue_log>>
rcVars == <<rc_exec, rc_job>>
toolVars == <<instVars, cvVars, nrVars, pkVars, ueVars, rcVars>>
mayaVars == <<scene, c_job, c_log, shelves, s_last, toolVars>>
otherVars == <<matchVars, mayaVars>>
vars == <<matchVars, encVars, mayaVars>>

(***************************************************************************)
(* Bounds of the model.                                                    *)
(***************************************************************************)
MaxNameLen == 3     \* longest store name drawn in SpecMatch
MaxKeyLen == 2      \* longest preset key drawn in SpecMatch
MaxKeys == 2        \* most keys in a preset drawn in SpecMatch
MaxRows == 2        \* most rows in a CSV drawn in SpecEncode
MaxTargets == 2     \* most targets in the list of a batch in SpecCtrl
MaxChildren == 3    \* most controls the user puts on a shelf in SpecShelf
MaxCoord == 9       \* farthest coordinate of a CV in SpecScaler
MaxTabs == 3        \* most tabs the user makes in SpecPicker

(***************************************************************************)
(* Strings.                                                                *)
(***************************************************************************)
Letters == {"a", "b"}
Space == " "
Alphabet == Letters \cup {Space}

RECURSIVE StringsUpTo(_)
StringsUpTo(n) ==
    IF n = 0 THEN {<<>>}
    ELSE LET shorter == StringsUpTo(n - 1)
         IN  shorter \cup {Append(s, c) : s \in shorter, c \in Alphabet}

\* Python: c.isspace()
IsSpace(c) == c = Space

\* Python: s.lstrip()
RECURSIVE LStrip(_)
LStrip(s) == IF s # <<>> /\ IsSpace(Head(s)) THEN LStrip(Tail(s)) ELSE s

\* Python: s.rstrip()
RECURSIVE RStrip(_)
RStrip(s) ==
    IF s # <<>> /\ IsSpace(s[Len(s)]) THEN RStrip(SubSeq(s, 1, Len(s) - 1)) ELSE s

\* Python: s.strip()
Strip(s) == RStrip(LStrip(s))

\* Python: k in s  (substring test; the empty string is in every string)
Contains(s, k) ==
    \E i \in 0..(Len(s) - Len(k)) : SubSeq(s, i + 1, i + Len(k)) = k

\* Python: s.startswith(p)
StartsWith(s, p) == Len(p) <= Len(s) /\ SubSeq(s, 1, Len(p)) = p

(***************************************************************************)
(* Optional values: Python's None and a present value.                     *)
(***************************************************************************)
NoneVal == <<"None">>
Some(v) == <<"Some", v>>
IsNone(o) == Len(o) = 1
TheVal(o) == o[2]

(***************************************************************************)
(* preset_manager.Preset: store_mapping is a dict, which keeps insertion   *)
(* order: a sequence of entries with pairwise distinct keys.               *)
(***************************************************************************)
Entry(k, c, s) == [key |-> k, category |-> c, sub_category |-> s]

Keys(mapping) == [i \in 1..Len(mapping) |-> mapping[i].key]

KeySet(mapping) == {mapping[i].key : i \in 1..Len(mapping)}

HasKey(mapping, k) == k \in KeySet(mapping)

\* store_mapping[k]
Lookup(mapping, k) ==
    LET i == CHOOSE j \in 1..Len(mapping) : mapping[j].key = k
    IN  [category |-> mapping[i].category, sub_category |-> mapping[i].sub_category]

\* Insert k into an already sorted sequence, after every key at least as long:
\* sorted(..., key=len, reverse=True) is stable, so keys of equal length keep
\* their dict order.
RECURSIVE InsertByLenDesc(_, _)
InsertByLenDesc(sorted, k) ==
    IF sorted = <<>> THEN <<k>>
    ELSE IF Len(Head(sorted)) >= Len(k)
         THEN <<Head(sorted)>> \o InsertByLenDesc(Tail(sorted), k)
         ELSE <<k>> \o sorted

\* sorted(keys, key=len, reverse=True)
RECURSIVE SortByLenDesc(_)
SortByLenDesc(keys) ==
    IF keys = <<>> THEN <<>>
    ELSE InsertByLenDesc(SortByLenDesc(SubSeq(keys, 1, Len(keys) - 1)),
                         keys[Len(keys)])

\* the loop "for k in keys: if k and k in s: return k", then "return None"
RECURSIVE FirstHit(_, _)
FirstHit(keys, s) ==
    IF keys = <<>> THEN NoneVal
    ELSE IF Head(keys) # <<>> /\ Contains(s, Head(keys)) THEN Some(Head(keys))
         ELSE FirstHit(Tail(keys), s)

\* A plausible slip: the keys are tried in dict order, not longest first.
match_store_key_unsorted(store_name, mapping) ==
    LET s == Strip(store_name)
    IN  IF s = <<>> THEN NoneVal ELSE FirstHit(Keys(mapping), s)

match_store_key(store_name, mapping) ==
    LET s == Strip(store_name)
    IN  IF s = <<>> THEN NoneVal
        ELSE FirstHit(SortByLenDesc(Keys(mapping)), s)

(***************************************************************************)
(* Files.  A path is its stem (a sequence of name parts) and its suffix;   *)
(* a file holds CSV text, a YAML document or TSV text, kept in parsed form.*)
(***************************************************************************)
PathOf(stem, ext) == [stem |-> stem, ext |-> ext]

A_CSV == PathOf(<<"a">>, "csv")
B_CSV == PathOf(<<"b">>, "csv")
P_YAML == PathOf(<<"p">>, "yaml")

\* Path(csv_path).with_suffix("") then + "_encoded.tsv"
TsvPathOf(csv) == PathOf(csv.stem \o <<"_encoded">>, "tsv")

Q_YAML == PathOf(<<"q">>, "yaml")

Paths == {A_CSV, B_CSV, P_YAML, Q_YAML, TsvPathOf(A_CSV), TsvPathOf(B_CSV)}

Absent == [kind |-> "absent"]
CsvFile(headers, rows) == [kind |-> "csv", headers |-> headers, rows |-> rows]
YamlFile(sm) == [kind |-> "yaml", sm |-> sm]
TsvFile(rows) == [kind |-> "tsv", rows |-> rows]

\* Path.exists()
Exists(f, path) == f[path].kind # "absent"

Range(seq) == {seq[i] : i \in 1..Len(seq)}

\* Results of a call: a returned value or a raised exception.
Returned(v) == [raised |-> FALSE, exc |-> "", value |-> v]
Raised(e) == [raised |-> TRUE, exc |-> e, value |-> <<>>]

(***************************************************************************)
(* The YAML preset document.  sm is the value under "store_mapping":       *)
(* NoneVal (no such key, or an empty file), <<"Bad">> (not a dict) or      *)
(* Some(items), items the raw (key, value) pairs in file order with        *)
(* distinct raw keys; an item's value is a dict (isdict) holding category  *)
(* and sub_category ("" when missing), or something else.                  *)
(***************************************************************************)
RawItem(k, isdict, c, s) ==
    [key |-> k, isdict |-> isdict, category |-> c, sub_category |-> s]

BadMapping == <<"Bad", <<>>>>

\* d[k] = v on an insertion-ordered dict: overwrite in place or append
DictSet(items, item) ==
    IF \E i \in 1..Len(items) : items[i].key = item.key
    THEN [i \in 1..Len(items) |->
            IF items[i].key = item.key THEN item ELSE items[i]]
    ELSE Append(items, item)

\* the loop of load_preset over store_mapping.items(), from item i on
RECURSIVE Normalize(_, _, _)
Normalize(items, i, normalized) ==
    IF i > Len(items) THEN Returned(normalized)
    ELSE IF ~items[i].isdict THEN Raised("ValueError")
    ELSE Normalize(items, i + 1,
            DictSet(normalized,
                    Entry(Strip(items[i].key), Strip(items[i].category),
                          Strip(items[i].sub_category))))

\* load_preset(preset_path): the store_mapping of the Preset it returns
load_preset(f, path) ==
    IF ~Exists(f, path) THEN Raised("FileNotFoundError")
    ELSE IF f[path].kind # "yaml" THEN Raised("YAMLError")
    ELSE LET sm == f[path].sm
         IN  IF IsNone(sm) THEN Returned(<<>>)
             ELSE IF sm = BadMapping THEN Raised("ValueError")
             ELSE Normalize(TheVal(sm), 1, <<>>)

(***************************************************************************)
(* encoder_core / table_transformer / value_filler.  The Japanese column   *)
(* names and words are written with ASCII stand-ins:                       *)
(*   date=取引日  withdraw=出金金額（円）  deposit=入金金額（円）          *)
(*   overseas=海外出金金額  content=取引内容  store=取引先  method=取引方法*)
(*   "k","t" = 獲得   "c","d" = カード   "c","r" = クレジット              *)
(***************************************************************************)
REQUIRED_HEADERS ==
    <<"date", "withdraw", "deposit", "overseas", "content", "store", "method">>

TSV_HEADERS ==
    <<<<"date_">>, <<"asset">>, <<"category">>, <<"small">>, <<"detail">>,
      <<"amount">>, <<"io">>, <<"memo">>>>

KAKUTOKU == <<"k", "t">>
CARD_KEYWORDS == {<<"c", "d">>, <<"c", "r">>}
ASSET_CARD == <<"Card">>
ASSET_PAYPAY == <<"PayPay">>
IO_EXPENSE == <<"expense">>
IO_INCOME == <<"income">>

\* r.get(h) or "": csv.DictReader gives a row no entry for a column the
\* header line does not have
Get(headers, r, h) == IF h \in Range(headers) THEN r[h] ELSE <<>>

\* [x for x in seq if keep(x)] for the two filters the encoder uses
RECURSIVE SelectSeq2(_, _)
SelectSeq2(seq, keep) ==
    IF seq = <<>> THEN <<>>
    ELSE IF Head(seq) \in keep THEN <<Head(seq)>> \o SelectSeq2(Tail(seq), keep)
         ELSE SelectSeq2(Tail(seq), keep)

\* A plausible slip: the two lists are swapped in the comprehension.
validate_headers_swapped(headers) ==
    SelectSeq2(headers, Range(headers) \ Range(REQUIRED_HEADERS))

\* validate_headers: [h for h in REQUIRED_HEADERS if h not in headers]
validate_headers(headers) ==
    SelectSeq2(REQUIRED_HEADERS, Range(REQUIRED_HEADERS) \ Range(headers))

\* extract_store_names: the stripped, non-blank 取引先 of every row
RECURSIVE extract_store_names(_, _)
extract_store_names(headers, rows) ==
    IF rows = <<>> THEN <<>>
    ELSE LET name == Strip(Get(headers, Head(rows), "store"))
             rest == extract_store_names(headers, Tail(rows))
         IN  IF name # <<>> THEN <<name>> \o rest ELSE rest

\* the loop of validate_unknown_stores, from name i on
RECURSIVE UnknownLoop(_, _, _, _, _)
UnknownLoop(store_names, mapping, i, seen, unknown) ==
    IF i > Len(store_names) THEN unknown
    ELSE LET name == Strip(store_names[i])
         IN  IF name = <<>> \/ name \in seen
             THEN UnknownLoop(store_names, mapping, i + 1, seen, unknown)
             ELSE UnknownLoop(store_names, mapping, i + 1, seen \cup {name},
                     IF IsNone(match_store_key(name, mapping))
                     THEN Append(unknown, name) ELSE unknown)

\* A plausible slip: no "seen" set, so a store is reported once per row.
RECURSIVE UnknownLoopDup(_, _, _)
UnknownLoopDup(store_names, mapping, i) ==
    IF i > Len(store_names) THEN <<>>
    ELSE LET name == Strip(store_names[i])
             rest == UnknownLoopDup(store_names, mapping, i + 1)
         IN  IF name # <<>> /\ IsNone(match_store_key(name, mapping))
             THEN <<name>> \o rest ELSE rest

validate_unknown_stores_dup(store_names, mapping) ==
    UnknownLoopDup(store_names, mapping, 1)

validate_unknown_stores(store_names, mapping) ==
    UnknownLoop(store_names, mapping, 1, {}, <<>>)

\* table_transformer.should_skip_row
should_skip_row(transaction_content) == Contains(transaction_content, KAKUTOKU)

\* table_transformer.clear_unused_columns: columns E,F,G,K,L,M are emptied
clear_unused_columns(row) ==
    [i \in 1..Len(row) |-> IF (i - 1) \in {4, 5, 6, 10, 11, 12} THEN <<>> ELSE row[i]]

Digits == {"0", "1"}

\* float(v) succeeds: surrounding whitespace is allowed, then digits only
\* (the amounts of the model have no sign, decimal point or exponent)
IsFloat(v) == Strip(v) # <<>> /\ Range(Strip(v)) \subseteq Digits

\* has_value: bool(v) and float(v) != 0.0, False when float() raises
has_value(v) == v # <<>> /\ IsFloat(v) /\ Range(Strip(v)) # {"0"}

\* table_transformer.decide_income_or_expense (row is 0-based in the code)
decide_income_or_expense(row) ==
    IF (Len(row) > 1 /\ has_value(row[2])) \/ (Len(row) > 3 /\ has_value(row[4]))
    THEN IO_EXPENSE
    ELSE IF Len(row) > 2 /\ has_value(row[3]) THEN IO_INCOME ELSE <<>>

\* table_transformer.move_amount_to_f
move_amount_to_f(row) == IF Len(row) > 1 THEN Strip(row[2]) ELSE <<>>

\* value_filler.decide_asset
decide_asset(method_text) ==
    IF \E k \in CARD_KEYWORDS : Contains(Strip(method_text), k)
    THEN ASSET_CARD ELSE ASSET_PAYPAY

\* value_filler.fill_category: (category, sub_category), or KeyError
fill_category(store_name, mapping) ==
    LET key == match_store_key(store_name, mapping)
    IN  IF IsNone(key) THEN Raised("KeyError")
        ELSE Returned(Lookup(mapping, TheVal(key)))

\* the 13-column list transform_to_tsv_rows builds for one CSV row
RowList(headers, r) ==
    <<Get(headers, r, "date"), Get(headers, r, "withdraw"),
      Get(headers, r, "deposit"), Get(headers, r, "overseas"),
      Get(headers, r, "content"), <<>>, <<>>, <<>>,
      Get(headers, r, "store"), Get(headers, r, "method"), <<>>, <<>>, <<>>>>

\* the TSV row of one CSV row that is not skipped, given its category
TsvRow(headers, r, cat) ==
    LET row_list == clear_unused_columns(RowList(headers, r))
    IN  <<Strip(Get(headers, r, "date")),
          decide_asset(Get(headers, r, "method")),
          cat.category,
          <<>>,
          cat.sub_category,
          move_amount_to_f(row_list),
          decide_income_or_expense(row_list),
          Strip(Get(headers, r, "store"))>>

\* A plausible slip: the skip test is left out and every row is converted.
RECURSIVE TransformNoSkip(_, _, _, _)
TransformNoSkip(headers, rows, mapping, out) ==
    IF rows = <<>> THEN Returned(out)
    ELSE LET r == Head(rows)
             cat == fill_category(Get(headers, r, "store"), mapping)
         IN  IF cat.raised THEN cat
             ELSE TransformNoSkip(headers, Tail(rows), mapping,
                                  Append(out, TsvRow(headers, r, cat.value)))

\* the loop of transform_to_tsv_rows
RECURSIVE TransformLoop(_, _, _, _)
TransformLoop(headers, rows, mapping, out) ==
    IF rows = <<>> THEN Returned(out)
    ELSE LET r == Head(rows)
         IN  IF should_skip_row(Get(headers, r, "content"))
             THEN TransformLoop(headers, Tail(rows), mapping, out)
             ELSE LET cat == fill_category(Get(headers, r, "store"), mapping)
                  IN  IF cat.raised THEN cat
                      ELSE TransformLoop(headers, Tail(rows), mapping,
                              Append(out, TsvRow(headers, r, cat.value)))

transform_to_tsv_rows_noskip(headers, rows, mapping) ==
    TransformNoSkip(headers, rows, mapping, <<>>)

transform_to_tsv_rows(headers, rows, mapping) ==
    TransformLoop(headers, rows, mapping, <<>>)

\* write_tsv: the header row, then the rows; the file is created or replaced
write_tsv(f, tsv_path, rows) ==
    [f EXCEPT ![tsv_path] = TsvFile(<<TSV_HEADERS>> \o rows)]

\* ", ".join(names)
RECURSIVE Join(_)
Join(names) ==
    IF names = <<>> THEN <<>>
    ELSE IF Len(names) = 1 THEN <<names[1]>>
    ELSE <<names[1], ", ">> \o Join(Tail(names))

MSG_MISSING_HEADERS == "MissingHeaders: "
MSG_UNKNOWN == <<"UnregisteredStores">>
MSG_OK == "OK: "

HeaderMessage(missing) == <<MSG_MISSING_HEADERS>> \o Join(missing)
UnknownMessage(u) == <<"-", " ">> \o u
OkMessage(path) == <<MSG_OK>> \o path.stem \o <<".", path.ext>>

\* What a call of run_encode did: how it ended ("ok" = (True, msgs),
\* "fail" = (False, msgs), "raise" = an exception), its messages, the file
\* system it left, and the steps it ran.
EncodeResult(outcome, msgs, f, steps) ==
    [outcome |-> outcome, msgs |-> msgs, fs |-> f, steps |-> steps]

\* run_encode(csv_path, preset_path)
run_encode(f, csv, preset_path) ==
    LET preset == load_preset(f, preset_path)
    IN  IF preset.raised
        THEN EncodeResult("raise", <<>>, f, {"load_preset"})
        ELSE IF f[csv].kind # "csv"
        THEN EncodeResult("raise", <<>>, f, {"load_preset", "read_paypay_csv"})
        ELSE
        LET headers == f[csv].headers
            rows == f[csv].rows
            missing == validate_headers(headers)
            unknown == validate_unknown_stores(extract_store_names(headers, rows),
                                               preset.value)
            tsv_rows == transform_to_tsv_rows(headers, rows, preset.value)
            read == {"load_preset", "read_paypay_csv", "validate_headers"}
        IN  IF missing # <<>>
            THEN EncodeResult("fail", <<HeaderMessage(missing)>>, f, read)
            ELSE IF unknown # <<>>
            THEN EncodeResult("fail",
                    <<MSG_UNKNOWN>> \o
                        [i \in 1..Len(unknown) |-> UnknownMessage(unknown[i])],
                    f, read \cup {"validate_unknown_stores"})
            ELSE IF tsv_rows.raised
            THEN EncodeResult("raise", <<>>, f,
                    read \cup {"validate_unknown_stores", "transform_to_tsv_rows"})
            ELSE EncodeResult("ok", <<OkMessage(TsvPathOf(csv))>>,
                    write_tsv(f, TsvPathOf(csv), tsv_rows.value),
                    read \cup {"validate_unknown_stores", "transform_to_tsv_rows",
                               "write_tsv"})

(***************************************************************************)
(* preset_manager.upsert_store_mapping and collect_category_options.       *)
(***************************************************************************)
\* upsert_store_mapping: the file system it leaves, or the exception.  The
\* store_mapping read from the file is updated as it stands (raw keys) and the
\* document is written back.
upsert_store_mapping(f, path, store_key, category, sub_category) ==
    IF ~Exists(f, path) THEN Raised("FileNotFoundError")
    ELSE IF f[path].kind # "yaml" THEN Raised("YAMLError")
    ELSE LET sm == f[path].sm
             store_mapping == IF IsNone(sm) THEN <<>> ELSE TheVal(sm)
             key == Strip(store_key)
         IN  IF sm = BadMapping THEN Raised("ValueError")
             ELSE IF key = <<>> THEN Raised("ValueError")
             ELSE Returned(
                    [f EXCEPT ![path] =
                        YamlFile(Some(DictSet(store_mapping,
                            RawItem(key, TRUE, Strip(category),
                                    Strip(sub_category)))))])

\* the unique non-empty values of one field, in order of first appearance
RECURSIVE UniqueField(_, _, _, _)
UniqueField(mapping, field, i, acc) ==
    IF i > Len(mapping) THEN acc
    ELSE LET v == Strip(mapping[i][field])
         IN  UniqueField(mapping, field, i + 1,
                IF v # <<>> /\ v \notin Range(acc) THEN Append(acc, v) ELSE acc)

\* collect_category_options: (categories, sub_categories), or the exception
\* of load_preset
collect_category_options(f, path) ==
    LET preset == load_preset(f, path)
    IN  IF preset.raised THEN preset
        ELSE Returned(<<UniqueField(preset.value, "category", 1, <<>>),
                        UniqueField(preset.value, "sub_category", 1, <<>>)>>)

(***************************************************************************)
(* History variable: the last library call, its arguments, how it ended    *)
(* and the file system it started from.                                    *)
(***************************************************************************)
LastInit ==
    [op |-> "init", csv |-> NoneVal, yaml |-> NoneVal, outcome |-> "",
     msgs |-> <<>>, steps |-> {}, before |-> <<>>, key |-> <<>>,
     category |-> <<>>, sub_category |-> <<>>]

LastEncode(op, csv, yaml, res, before) ==
    [op |-> op, csv |-> csv, yaml |-> yaml, outcome |-> res.outcome,
     msgs |-> res.msgs, steps |-> res.steps, before |-> before, key |-> <<>>,
     category |-> <<>>, sub_category |-> <<>>]

LastCall(op, path, key, category, sub_category, raised, before) ==
    [op |-> op, csv |-> NoneVal, yaml |-> path,
     outcome |-> IF raised THEN "raise" ELSE "ok",
     msgs |-> <<>>, steps |-> {}, before |-> before, key |-> key,
     category |-> category, sub_category |-> sub_category]

\* The variables of a part that a specification does not use stay at these values.
GuiIdle ==
    /\ csv_path = NoneVal
    /\ yaml_path = NoneVal
    /\ check_ok = FALSE
    /\ unknown_stores = <<>>
    /\ run_btn = FALSE
    /\ register_btn = FALSE
    /\ dlg = FALSE
    /\ sub_options = <<>>
    /\ yaml_btn = FALSE
    /\ last_check = "none"

EncIdle ==
    /\ fs = <<>>
    /\ GuiIdle
    /\ last = LastInit

MatchIdle ==
    /\ m_store = <<>>
    /\ m_preset = <<>>
    /\ m_result = <<"unset">>

CtrlIdle ==
    /\ scene = <<>>
    /\ c_job = <<>>
    /\ c_log = <<>>

ShelfIdle ==
    /\ shelves = <<>>
    /\ s_last = <<>>

InstIdle ==
    /\ tool_root = <<>>
    /\ user_dir = <<>>
    /\ i_last = <<>>

CvIdle ==
    /\ cv_scene = <<>>
    /\ cv_ui = <<>>
    /\ cv_last = <<>>

NrIdle ==
    /\ nr_scene = <<>>
    /\ nr_ui = <<>>
    /\ nr_last = <<>>

PkIdle ==
    /\ pk_ui = <<>>
    /\ pk_file = <<>>
    /\ pk_last = <<>>

UeIdle ==
    /\ ue_project = <<>>
    /\ ue_job = <<>>
    /\ ue_log = <<>>

RcIdle ==
    /\ rc_exec = <<>>
    /\ rc_job = <<>>

ToolIdle == InstIdle /\ CvIdle /\ NrIdle /\ PkIdle /\ UeIdle /\ RcIdle

MayaIdle == CtrlIdle /\ ShelfIdle /\ ToolIdle

OtherIdle == MatchIdle /\ MayaIdle

(***************************************************************************)
(* SpecEncode: one call of run_encode on an existing CSV file and a preset *)
(* file that loads, both drawn from bounded sets.                          *)
(***************************************************************************)
CsvRow(date, w, d, o, content, store, method) ==
    [date |-> date, withdraw |-> w, deposit |-> d, overseas |-> o,
     content |-> content, store |-> store, method |-> method]

\* 取引先 values: matched by one key, by two, padded, blank, whitespace only
RowStores == {<<"a", "b">>, <<" ", "a", " ">>, <<"b">>, <<>>, <<" ">>}

\* 取引内容 values: a payment, and a point award (contains 獲得)
RowContents == {<<"p">>, <<"p", "k", "t">>}

RowChoices ==
    {CsvRow(<<" ", "d">>, <<"1", "0">>, <<>>, <<>>, c, st, <<"c", "d">>) :
        c \in RowContents, st \in RowStores}
    \cup
    {CsvRow(<<"d">>, <<>>, <<"1">>, <<"0">>, <<"p">>, st, <<"q">>) :
        st \in {<<"a", "b">>, <<>>}}

RECURSIVE SeqsUpTo(_, _)
SeqsUpTo(S, n) ==
    IF n = 0 THEN {<<>>}
    ELSE LET shorter == SeqsUpTo(S, n - 1)
         IN  shorter \cup {Append(q, x) : q \in shorter, x \in S}

\* header lines: complete (with an extra column), one column missing, two
\* columns missing, and an empty file
FullHeaders ==
    <<"date", "withdraw", "deposit", "overseas", "content", "id", "store", "method">>

HeaderChoices ==
    {FullHeaders,
     <<"withdraw", "deposit", "overseas", "content", "store", "method">>,
     <<"store", "date", "withdraw", "deposit", "overseas">>,
     <<>>}

C1Val == <<"f">>
C2Val == <<"g">>
S1Val == <<"s">>
S2Val == <<"t">>

\* preset documents that load
PresetDocs ==
    {NoneVal,
     Some(<<>>),
     Some(<<RawItem(<<"a">>, TRUE, C1Val, S1Val)>>),
     Some(<<RawItem(<<"a">>, TRUE, C1Val, S1Val),
            RawItem(<<"a", "b">>, TRUE, C2Val, S2Val)>>),
     Some(<<RawItem(<<" ", "b">>, TRUE, <<" ", "f", " ">>, <<>>),
            RawItem(<<"a">>, TRUE, C2Val, S2Val)>>),
     Some(<<RawItem(<<>>, TRUE, C1Val, S1Val),
            RawItem(<<"b">>, TRUE, C2Val, S1Val)>>)}

OldTsv == TsvFile(<<TSV_HEADERS>>)

InitEncode ==
    /\ \E h \in HeaderChoices, rs \in SeqsUpTo(RowChoices, MaxRows),
          d \in PresetDocs, old \in {Absent, OldTsv} :
          fs = [p \in Paths |->
                  IF p = A_CSV THEN CsvFile(h, rs)
                  ELSE IF p = P_YAML THEN YamlFile(d)
                  ELSE IF p = TsvPathOf(A_CSV) THEN old
                  ELSE Absent]
    /\ GuiIdle
    /\ last = LastInit
    /\ OtherIdle

\* main.py: ok, msgs = run_encode(csv_path, yaml_path)
CallRunEncode ==
    /\ last.op = "init"
    /\ LET res == run_encode(fs, A_CSV, P_YAML)
       IN  /\ fs' = res.fs
           /\ last' = LastEncode("run_encode", A_CSV, P_YAML, res, fs)
    /\ UNCHANGED <<guiVars, otherVars>>

NextEncode == CallRunEncode

SpecEncode == InitEncode /\ [][NextEncode]_vars

\* The call of run_encode that `last` records: its CSV, and the preset as
\* loaded from the file system it started from.
LastCsv == last.before[last.csv]
LastMapping == load_preset(last.before, last.yaml).value
LastTsvPath == TsvPathOf(last.csv)
LastStore(i) == Strip(Get(LastCsv.headers, LastCsv.rows[i], "store"))

\* C17: whenever run_encode's unknown-store validation passes, the conversion
\* finds a preset key for every row it converts: transform_to_tsv_rows does
\* not raise KeyError, also for rows with a blank 取引先
C17_ValidationCoversRows ==
    (last.op = "run_encode" /\ "transform_to_tsv_rows" \in last.steps) =>
        /\ last.outcome = "ok"
        /\ ~transform_to_tsv_rows(LastCsv.headers, LastCsv.rows, LastMapping).raised

\* the rows of the CSV whose 取引内容 does not contain 獲得, in input order
RECURSIVE C2_Kept(_)
C2_Kept(rows) ==
    IF rows = <<>> THEN <<>>
    ELSE IF Contains(Head(rows).content, KAKUTOKU) THEN C2_Kept(Tail(rows))
         ELSE <<Head(rows)>> \o C2_Kept(Tail(rows))

\* C2: when run_encode succeeds it writes one TSV, <csv stem>_encoded.tsv: the
\* 8-column header row, then one row for each CSV row whose 取引内容 does
\* not contain 獲得, in input order; in each such row 分類 and 内容 are the
\* category and sub_category of the key match_store_key selects for the row's
\* 取引先, 小分類 is empty and メモ is the stripped 取引先.
C2_EncodedTsv ==
    (last.op = "run_encode" /\ last.outcome = "ok") =>
        LET kept == C2_Kept(LastCsv.rows)
            tsv == fs[LastTsvPath]
        IN  /\ LastTsvPath = PathOf(<<"a", "_encoded">>, "tsv")
            /\ \A p \in Paths \ {LastTsvPath} : fs[p] = last.before[p]
            /\ tsv.kind = "tsv"
            /\ Len(tsv.rows) = Len(kept) + 1
            /\ tsv.rows[1] = TSV_HEADERS
            /\ Len(tsv.rows[1]) = 8
            /\ \A i \in 1..Len(kept) :
                  LET k == match_store_key(kept[i].store, LastMapping)
                      out == tsv.rows[i + 1]
                  IN  /\ ~IsNone(k)
                      /\ Len(out) = 8
                      /\ out[3] = Lookup(LastMapping, TheVal(k)).category
                      /\ out[4] = <<>>
                      /\ out[5] = Lookup(LastMapping, TheVal(k)).sub_category
                      /\ out[8] = Strip(kept[i].store)

\* A successful run that skipped a row, converted a row whose 取引先 is
\* padded with whitespace, and replaced an older TSV.
C2_Witness ==
    /\ last.op = "run_encode"
    /\ last.outcome = "ok"
    /\ Len(LastCsv.rows) = 2
    /\ Len(fs[LastTsvPath].rows) = 2
    /\ fs[LastTsvPath].rows[2][8] = <<"a">>
    /\ \E i \in 1..2 : LastCsv.rows[i].store = <<" ", "a", " ">>
                        /\ ~Contains(LastCsv.rows[i].content, KAKUTOKU)
    /\ last.before[LastTsvPath] = OldTsv

\* the non-blank 取引先 of the CSV that match no preset key
C3_Unregistered ==
    {LastStore(i) : i \in {j \in 1..Len(LastCsv.rows) :
        /\ LastStore(j) # <<>>
        /\ IsNone(match_store_key(LastStore(j), LastMapping))}}

C3_FirstRow(name) ==
    CHOOSE i \in 1..Len(LastCsv.rows) :
        LastStore(i) = name /\ \A j \in 1..(i - 1) : LastStore(j) # name

\* the messages after the first are "- <name>", each unregistered store once,
\* in order of first appearance in the CSV
C3_Listed ==
    LET n == Len(last.msgs) - 1
        name(i) == SubSeq(last.msgs[i + 1], 3, Len(last.msgs[i + 1]))
    IN  /\ n = Cardinality(C3_Unregistered)
        /\ \A i \in 1..n :
              /\ StartsWith(last.msgs[i + 1], <<"-", " ">>)
              /\ name(i) \in C3_Unregistered
        /\ \A i, j \in 1..n :
              i < j => C3_FirstRow(name(i)) < C3_FirstRow(name(j))

C3_Aborted ==
    /\ last.outcome = "fail"
    /\ Len(last.msgs) >= 1
    /\ last.msgs[1] = MSG_UNKNOWN
    /\ C3_Listed
    /\ fs = last.before

C3_AllHeaders == \A h \in Range(REQUIRED_HEADERS) : h \in Range(LastCsv.headers)

\* C3 as claimed: if any non-blank 取引先 of the CSV matches no preset key,
\* run_encode returns (False, messages), the messages list each unregistered
\* store exactly once in order of first appearance, and no TSV is written.
C3_Original ==
    (last.op = "run_encode" /\ C3_Unregistered # {}) => C3_Aborted

\* C3 as amended: the same, for a CSV that has all seven required headers
\* (a CSV that lacks one is rejected with the header message instead).
C3_UnknownAbort ==
    (last.op = "run_encode" /\ C3_AllHeaders /\ C3_Unregistered # {})
        => C3_Aborted

\* Two different unregistered stores are reported, over an older TSV.
C3_Witness ==
    /\ last.op = "run_encode"
    /\ C3_AllHeaders
    /\ Cardinality(C3_Unregistered) = 2
    /\ Len(last.msgs) = 3
    /\ last.msgs[2] = <<"-", " ", "b">>
    /\ last.before[LastTsvPath] = OldTsv

\* the required headers the CSV lacks
C4_Absent == {h \in Range(REQUIRED_HEADERS) : h \notin Range(LastCsv.headers)}

C4_Position(h) == CHOOSE i \in 1..Len(REQUIRED_HEADERS) : REQUIRED_HEADERS[i] = h

\* msg is the header message: its prefix, then the lacking headers, each once,
\* separated by ", " and in REQUIRED_HEADERS order
C4_NamesMissing(msg) ==
    LET n == Len(msg) \div 2
        name(i) == msg[2 * i]
    IN  /\ Len(msg) = 2 * n
        /\ msg[1] = MSG_MISSING_HEADERS
        /\ n = Cardinality(C4_Absent)
        /\ \A i \in 1..n : name(i) \in C4_Absent
        /\ \A i \in 1..(n - 1) : msg[2 * i + 1] = ", "
        /\ \A i, j \in 1..n : i < j => C4_Position(name(i)) < C4_Position(name(j))

\* C4: if any of the seven required headers is absent from the CSV, run_encode
\* returns (False, [one message naming the missing headers in REQUIRED_HEADERS
\* order]) without running the unknown-store validation and without writing a
\* TSV; validate_headers returns the empty list exactly when all required
\* headers are present.
C4_HeaderAbort ==
    last.op = "run_encode" =>
        /\ (validate_headers(LastCsv.headers) = <<>>) <=> (C4_Absent = {})
        /\ C4_Absent # {} =>
              /\ last.outcome = "fail"
              /\ Len(last.msgs) = 1
              /\ C4_NamesMissing(last.msgs[1])
              /\ "validate_unknown_stores" \notin last.steps
              /\ fs = last.before

\* A CSV that lacks two required headers and holds a 取引先 no key matches:
\* only the headers are reported.
C4_Witness ==
    /\ last.op = "run_encode"
    /\ C4_Absent = {"content", "method"}
    /\ C3_Unregistered # {}
    /\ last.outcome = "fail"
    /\ last.msgs = <<<<MSG_MISSING_HEADERS, "content", ", ", "method">>>>
    /\ last.before[LastTsvPath] = OldTsv

(***************************************************************************)
(* SpecPreset: calls of upsert_store_mapping, load_preset and              *)
(* collect_category_options on a preset file that loads.  The file is      *)
(* written by hand, so two of its raw keys may differ only in surrounding  *)
(* whitespace.                                                             *)
(***************************************************************************)
HandWrittenDocs ==
    PresetDocs \cup
    {Some(<<RawItem(<<"a">>, TRUE, C1Val, S1Val),
            RawItem(<<"a", " ">>, TRUE, C2Val, S2Val)>>),
     Some(<<RawItem(<<"b", " ">>, TRUE, C2Val, S2Val),
            RawItem(<<"b">>, TRUE, C1Val, S1Val)>>)}

UpsertKeys == {<<"a">>, <<" ", "a">>, <<"b">>, <<"a", "b">>, <<" ">>}
UpsertCategories == {C1Val, <<" ", "g">>}
UpsertSubCategories == {S1Val, <<"t", " ">>}

InitPreset ==
    /\ \E d \in HandWrittenDocs :
          fs = [p \in Paths |-> IF p = P_YAML THEN YamlFile(d) ELSE Absent]
    /\ GuiIdle
    /\ last = LastInit
    /\ OtherIdle

CallUpsert ==
    \E k \in UpsertKeys, c \in UpsertCategories, sc \in UpsertSubCategories :
        LET res == upsert_store_mapping(fs, P_YAML, k, c, sc)
        IN  /\ fs' = IF res.raised THEN fs ELSE res.value
            /\ last' = LastCall("upsert_store_mapping", P_YAML, k, c, sc,
                                res.raised, fs)
            /\ UNCHANGED <<guiVars, otherVars>>

CallLoadPreset ==
    /\ last' = LastCall("load_preset", P_YAML, <<>>, <<>>, <<>>,
                        load_preset(fs, P_YAML).raised, fs)
    /\ UNCHANGED <<fs, guiVars, otherVars>>

CallCollect ==
    /\ last' = LastCall("collect_category_options", P_YAML, <<>>, <<>>, <<>>,
                        collect_category_options(fs, P_YAML).raised, fs)
    /\ UNCHANGED <<fs, guiVars, otherVars>>

NextPreset == CallUpsert \/ CallLoadPreset \/ CallCollect

SpecPreset == InitPreset /\ [][NextPreset]_vars

\* C6: after a successful upsert_store_mapping(path, key, category,
\* sub_category), load_preset(path).store_mapping maps key.strip() to
\* {category: category.strip(), sub_category: sub_category.strip()}, and every
\* other store key maps to exactly what it mapped to before the call.
C6_UpsertThenLoad ==
    (last.op = "upsert_store_mapping" /\ last.outcome = "ok") =>
        LET before == load_preset(last.before, last.yaml)
            after == load_preset(fs, last.yaml)
            k == Strip(last.key)
        IN  /\ ~after.raised
            /\ HasKey(after.value, k)
            /\ Lookup(after.value, k) =
                  [category |-> Strip(last.category),
                   sub_category |-> Strip(last.sub_category)]
            /\ \A k2 \in (KeySet(before.value) \cup KeySet(after.value)) \ {k} :
                  /\ HasKey(before.value, k2)
                  /\ HasKey(after.value, k2)
                  /\ Lookup(after.value, k2) = Lookup(before.value, k2)

(***************************************************************************)
(* Spec: the encoder GUI, ui_app.App.  One action per button or dialog     *)
(* command.  The register dialog is modal (grab_set), so the main window's *)
(* buttons act only while it is closed; a disabled button does not act.    *)
(***************************************************************************)
\* the thirteen fixed categories of the dialog's combobox
CATEGORY_CHOICES ==
    << <<"c01">>, <<"c02">>, <<"c03">>, <<"c04">>, <<"c05">>, <<"c06">>,
       <<"c07">>, <<"c08">>, <<"c09">>, <<"c10">>, <<"c11">>, <<"c12">>,
       <<"c13">> >>

\* App.refresh_category_options: the new sub_category_options
refresh_category_options(f, ypath) ==
    IF IsNone(ypath) THEN <<>>
    ELSE LET res == collect_category_options(f, TheVal(ypath))
         IN  IF res.raised THEN <<>> ELSE res.value[2]

\* str.lstrip("-")
RECURSIVE LStripDash(_)
LStripDash(s) == IF s # <<>> /\ Head(s) = "-" THEN LStripDash(Tail(s)) ELSE s

\* App.extract_unknown_stores_from_messages
RECURSIVE extract_unknown_stores_from_messages(_)
extract_unknown_stores_from_messages(messages) ==
    IF messages = <<>> THEN <<>>
    ELSE LET n == Len(messages)
             unknown == extract_unknown_stores_from_messages(SubSeq(messages, 1, n - 1))
             line == Strip(messages[n])
             name == Strip(LStripDash(line))
         IN  IF StartsWith(line, <<"-">>) /\ name # <<>> /\ name \notin Range(unknown)
             THEN Append(unknown, name) ELSE unknown

LastGui(op, outcome, msgs, steps, key, category, sub_category) ==
    [op |-> op, csv |-> csv_path, yaml |-> yaml_path, outcome |-> outcome,
     msgs |-> msgs, steps |-> steps, before |-> fs, key |-> key,
     category |-> category, sub_category |-> sub_category]

\* CSV files of the user: one whose stores the presets know, one with two
\* stores they may not know, one lacking a header, one with a blank store
GuiCsvs ==
    {CsvFile(FullHeaders,
             <<CsvRow(<<"d">>, <<"1">>, <<>>, <<>>, <<"p">>, <<"a", "b">>, <<"c">>)>>),
     CsvFile(FullHeaders,
             <<CsvRow(<<"d">>, <<"1">>, <<>>, <<>>, <<"p">>, <<"b">>, <<"c">>),
               CsvRow(<<"d">>, <<>>, <<"1">>, <<>>, <<"p">>, <<" ", "a">>, <<"q">>)>>),
     CsvFile(<<"date", "withdraw", "deposit", "content", "store", "method">>,
             <<CsvRow(<<"d">>, <<"1">>, <<>>, <<>>, <<"p">>, <<"b">>, <<"c">>)>>),
     CsvFile(FullHeaders,
             <<CsvRow(<<"d">>, <<"1">>, <<>>, <<>>, <<"p">>, <<" ">>, <<"c">>)>>)}

GuiCsvB ==
    CsvFile(FullHeaders,
            <<CsvRow(<<"d">>, <<"1">>, <<>>, <<>>, <<"p">>, <<"b", "b">>, <<"c">>)>>)

GuiPreset == YamlFile(Some(<<RawItem(<<"a">>, TRUE, C1Val, S1Val)>>))

\* what the user may type or pick in the register dialog, besides the
\* defaults it offers
DialogKeys == {<<" ">>}
DialogCategories == {CATEGORY_CHOICES[1]}
DialogSubCategories == {<<>>, S2Val}

\* App.__init__, _build_ui and detect_preset.  P_YAML is
\* presets/common_preset.yaml; Q_YAML and the file beside a.csv are presets
\* the user keeps elsewhere.
Init ==
    /\ \E a \in GuiCsvs, b \in {GuiCsvB, Absent},
          common \in {GuiPreset, Absent}, beside \in {GuiPreset, Absent} :
          fs = [p \in Paths |->
                  IF p = A_CSV THEN a
                  ELSE IF p = B_CSV THEN b
                  ELSE IF p = P_YAML THEN common
                  ELSE IF p = Q_YAML THEN YamlFile(NoneVal)
                  ELSE IF p = TsvPathOf(A_CSV) THEN beside
                  ELSE Absent]
    /\ csv_path = NoneVal
    /\ yaml_path = IF Exists(fs, P_YAML) THEN Some(P_YAML) ELSE NoneVal
    /\ yaml_btn = ~Exists(fs, P_YAML)
    /\ sub_options = refresh_category_options(fs, yaml_path)
    /\ check_ok = FALSE
    /\ unknown_stores = <<>>
    /\ run_btn = FALSE
    /\ register_btn = FALSE
    /\ dlg = FALSE
    /\ last_check = "none"
    /\ last = LastInit
    /\ OtherIdle

\* App.select_csv, a file chosen in the dialog
select_csv ==
    /\ ~dlg
    /\ \E path \in Paths :
          /\ fs[path].kind = "csv"
          /\ csv_path' = Some(path)
    /\ last_check' = "none"
    /\ last' = LastGui("select_csv", "ok", <<>>, {}, <<>>, <<>>, <<>>)
    /\ UNCHANGED <<fs, yaml_path, check_ok, unknown_stores, run_btn,
                   register_btn, dlg, sub_options, yaml_btn, otherVars>>

\* App.select_yaml, a file chosen in the dialog
select_yaml ==
    /\ ~dlg
    /\ yaml_btn
    /\ \E path \in Paths :
          /\ fs[path].kind = "yaml"
          /\ yaml_path' = Some(path)
    /\ sub_options' = refresh_category_options(fs, yaml_path')
    /\ register_btn' = FALSE
    /\ run_btn' = FALSE
    /\ check_ok' = FALSE
    /\ unknown_stores' = <<>>
    /\ last_check' = "none"
    /\ last' = LastGui("select_yaml", "ok", <<>>, {}, <<>>, <<>>, <<>>)
    /\ UNCHANGED <<fs, csv_path, dlg, yaml_btn, otherVars>>

\* App.check
check ==
    /\ ~dlg
    /\ IF IsNone(csv_path) \/ IsNone(yaml_path)
       THEN /\ fs' = fs
            /\ unknown_stores' = <<>>
            /\ register_btn' = FALSE
            /\ check_ok' = FALSE
            /\ run_btn' = FALSE
            /\ last_check' = "failed"
            /\ last' = LastGui("check", "guard", <<>>, {}, <<>>, <<>>, <<>>)
       ELSE LET res == run_encode(fs, TheVal(csv_path), TheVal(yaml_path))
                unknown == extract_unknown_stores_from_messages(res.msgs)
                ok == res.outcome = "ok" /\ unknown = <<>>
            IN  /\ fs' = res.fs
                /\ unknown_stores' = unknown
                /\ register_btn' = (unknown # <<>>)
                /\ check_ok' = ok
                /\ run_btn' = ok
                /\ last_check' = IF ok THEN "passed" ELSE "failed"
                /\ last' = LastGui("check", res.outcome, res.msgs,
                                   res.steps \cup {"run_encode"}, <<>>, <<>>, <<>>)
    /\ UNCHANGED <<csv_path, yaml_path, dlg, sub_options, yaml_btn, otherVars>>

\* App.open_register_dialog
open_register_dialog ==
    /\ ~dlg
    /\ register_btn
    /\ IF IsNone(yaml_path) \/ unknown_stores = <<>>
       THEN UNCHANGED <<dlg, sub_options>>
       ELSE /\ sub_options' = refresh_category_options(fs, yaml_path)
            /\ dlg' = TRUE
    /\ last' = LastGui("open_register_dialog", "ok", <<>>, {}, <<>>, <<>>, <<>>)
    /\ UNCHANGED <<fs, csv_path, yaml_path, check_ok, unknown_stores, run_btn,
                   register_btn, yaml_btn, last_check, otherVars>>

\* the dialog's commit_and_next with the entries as the user left them
commit_and_next ==
    /\ dlg
    /\ unknown_stores # <<>>
    /\ \E key_var \in DialogKeys \cup {unknown_stores[1]},
          cat_var \in DialogCategories,
          sub_var \in DialogSubCategories \cup
                      (IF sub_options = <<>> THEN {} ELSE {sub_options[1]}) :
          LET store_key == Strip(key_var)
              cat == Strip(cat_var)
              sub == Strip(sub_var)
              res == upsert_store_mapping(fs, TheVal(yaml_path), store_key, cat, sub)
              rest == Tail(unknown_stores)
          IN  IF store_key = <<>> \/ cat = <<>> \/ sub = <<>>
              THEN /\ last' = LastGui("commit_and_next", "rejected", <<>>, {},
                                      store_key, cat, sub)
                   /\ UNCHANGED <<fs, unknown_stores, sub_options, dlg,
                                  register_btn, check_ok, run_btn>>
              ELSE IF res.raised
              THEN /\ last' = LastGui("commit_and_next", "raise", <<>>,
                                      {"upsert_store_mapping"}, store_key, cat, sub)
                   /\ UNCHANGED <<fs, unknown_stores, sub_options, dlg,
                                  register_btn, check_ok, run_btn>>
              ELSE /\ fs' = res.value
                   /\ unknown_stores' = rest
                   /\ sub_options' = refresh_category_options(fs', yaml_path)
                   /\ last' = LastGui("commit_and_next", "ok", <<>>,
                                      {"upsert_store_mapping"}, store_key, cat, sub)
                   /\ IF rest = <<>>
                      THEN /\ dlg' = FALSE
                           /\ register_btn' = FALSE
                           /\ check_ok' = FALSE
                           /\ run_btn' = FALSE
                      ELSE UNCHANGED <<dlg, register_btn, check_ok, run_btn>>
    /\ UNCHANGED <<csv_path, yaml_path, yaml_btn, last_check, otherVars>>

\* the dialog's skip_and_next
skip_and_next ==
    /\ dlg
    /\ IF unknown_stores = <<>>
       THEN UNCHANGED <<unknown_stores, dlg, check_ok, run_btn, register_btn>>
       ELSE /\ unknown_stores' = Tail(unknown_stores)
            /\ IF Tail(unknown_stores) = <<>>
               THEN /\ dlg' = FALSE
                    /\ check_ok' = FALSE
                    /\ run_btn' = FALSE
                    /\ register_btn' = FALSE
               ELSE UNCHANGED <<dlg, check_ok, run_btn, register_btn>>
    /\ last' = LastGui("skip_and_next", "ok", <<>>, {}, <<>>, <<>>, <<>>)
    /\ UNCHANGED <<fs, csv_path, yaml_path, sub_options, yaml_btn, last_check,
                   otherVars>>

\* the dialog's '閉じる' button: dlg.destroy
close_dialog ==
    /\ dlg
    /\ dlg' = FALSE
    /\ last' = LastGui("close_dialog", "ok", <<>>, {}, <<>>, <<>>, <<>>)
    /\ UNCHANGED <<fs, csv_path, yaml_path, check_ok, unknown_stores, run_btn,
                   register_btn, sub_options, yaml_btn, last_check, otherVars>>

\* App.run
run ==
    /\ ~dlg
    /\ run_btn
    /\ IF ~check_ok \/ unknown_stores # <<>> \/ IsNone(csv_path) \/ IsNone(yaml_path)
       THEN /\ fs' = fs
            /\ last' = LastGui("run", "guard", <<>>, {}, <<>>, <<>>, <<>>)
       ELSE LET res == run_encode(fs, TheVal(csv_path), TheVal(yaml_path))
            IN  /\ fs' = res.fs
                /\ last' = LastGui("run", res.outcome, res.msgs,
                                   res.steps \cup {"run_encode"}, <<>>, <<>>, <<>>)
    /\ UNCHANGED <<guiVars, otherVars>>

Next ==
    \/ select_csv
    \/ select_yaml
    \/ check
    \/ open_register_dialog
    \/ commit_and_next
    \/ skip_and_next
    \/ close_dialog
    \/ run

Spec == Init /\ [][Next]_vars

\* C5: the preset file is changed only by upsert_store_mapping: the GUI's
\* check and run (run_encode) leave the contents of the preset file they
\* were given unchanged, whatever their outcome, and the actions that only
\* read the preset (load_preset, collect_category_options) change no file.
C5_PresetOnlyUpserted ==
    /\ (last.op \in {"check", "run"} /\ ~IsNone(last.yaml)) =>
            fs[TheVal(last.yaml)] = last.before[TheVal(last.yaml)]
    /\ (last.op \in {"select_csv", "select_yaml", "open_register_dialog",
                     "skip_and_next", "close_dialog"}) =>
            fs = last.before

\* C7: run() calls run_encode only if the most recent check() made since the
\* CSV and the preset were last selected succeeded with no unknown stores.
C7_RunOnlyAfterCheck ==
    (last.op = "run" /\ "run_encode" \in last.steps) => last_check = "passed"

\* C8: check() creates or modifies no TSV file.
C8_CheckWritesNoTsv ==
    (last.op = "check") =>
        \A p \in Paths : p.ext = "tsv" => fs[p] = last.before[p]

(***************************************************************************)
(* Maya Controller Creator (src/maya/Controller_Creater/scripts/main.py;   *)
(* src/maya/controller_maker/scripts/main.py has the same logic).          *)
(*                                                                         *)
(* The scene is a record: nodes maps the name of a DAG transform to its    *)
(* type, parent, local translation and local rotation; cons is the set of  *)
(* constraints.  Transforms are planar: a translation is a pair of         *)
(* integers and a rotation a number of quarter turns, so that world and    *)
(* local values differ under a rotated or moved parent.  Names are         *)
(* sequences of characters, unique in the scene.                           *)
(***************************************************************************)
NoParent == <<>>

Node(type, parent, t, r) ==
    [type |-> type, parent |-> parent, t |-> t, r |-> r, bake |-> 0]

Identity == [t |-> <<0, 0>>, r |-> 0]

\* a vector turned by k quarter turns
Rot(k, v) ==
    CASE k % 4 = 0 -> v
      [] k % 4 = 1 -> <<0 - v[2], v[1]>>
      [] k % 4 = 2 -> <<0 - v[1], 0 - v[2]>>
      [] k % 4 = 3 -> <<v[2], 0 - v[1]>>

\* the transform of a child with local transform l under a parent at pw
Compose(pw, l) ==
    [t |-> <<pw.t[1] + Rot(pw.r, l.t)[1], pw.t[2] + Rot(pw.r, l.t)[2]>>,
     r |-> (pw.r + l.r) % 4]

\* the local transform that puts a child at w under a parent at pw
LocalFor(pw, w) ==
    [t |-> Rot(4 - pw.r, <<w.t[1] - pw.t[1], w.t[2] - pw.t[2]>>),
     r |-> (w.r + 4 - pw.r) % 4]

\* cmds.xform(n, q=True, ws=True, m=True)
RECURSIVE WorldOf(_, _)
WorldOf(sc, n) ==
    LET node == sc.nodes[n]
        l == [t |-> node.t, r |-> node.r]
    IN  IF node.parent = NoParent THEN l
        ELSE Compose(WorldOf(sc, node.parent), l)

ParentWorld(sc, n) ==
    IF sc.nodes[n].parent = NoParent THEN Identity
    ELSE WorldOf(sc, sc.nodes[n].parent)

\* cmds.xform(n, ws=True, m=w)
SetWorld(sc, n, w) ==
    LET l == LocalFor(ParentWorld(sc, n), w)
    IN  [sc EXCEPT !.nodes[n].t = l.t, !.nodes[n].r = l.r]

\* cmds.ls(n, l=True): the full DAG path
RECURSIVE LongName(_, _)
LongName(sc, n) ==
    IF sc.nodes[n].parent = NoParent THEN <<"|">> \o n
    ELSE LongName(sc, sc.nodes[n].parent) \o <<"|">> \o n

\* the node a name or a full path denotes, NoParent (no node) if none
Resolve(sc, name) ==
    IF name \in DOMAIN sc.nodes THEN name
    ELSE IF \E n \in DOMAIN sc.nodes : LongName(sc, n) = name
    THEN CHOOSE n \in DOMAIN sc.nodes : LongName(sc, n) = name
    ELSE NoParent

\* cmds.objExists
objExists(sc, name) == Resolve(sc, name) # NoParent

\* target.split("|")[-1]
LastComponent(s) ==
    LET bars == {i \in 1..Len(s) : s[i] = "|"}
    IN  IF bars = {} THEN s
        ELSE SubSeq(s, (CHOOSE i \in bars : \A k \in bars : k <= i) + 1, Len(s))

_safe_name_from_target(target) ==
    LET base == LastComponent(target)
    IN  [i \in 1..Len(base) |-> IF base[i] = ":" THEN "_" ELSE base[i]]

RECURSIVE UniqueFrom(_, _, _)
UniqueFrom(sc, base, i) ==
    IF objExists(sc, Append(base, ToString(i)))
    THEN UniqueFrom(sc, base, i + 1)
    ELSE Append(base, ToString(i))

_unique_name(sc, base) ==
    IF ~objExists(sc, base) THEN base ELSE UniqueFrom(sc, base, 1)

\* cmds.group(em=True, n=name) and cmds.circle(n=name): a new transform at
\* the origin of the world; the name is free when it is called
CreateTransform(sc, name) ==
    [sc EXCEPT !.nodes = (name :> Node("transform", NoParent, <<0, 0>>, 0)) @@ @]

\* cmds.makeIdentity(n, apply=True, ...): the rotation (and translation) is
\* baked into the shape and the channels are reset
makeIdentity(sc, n, t, r) ==
    [sc EXCEPT !.nodes[n].bake = IF r THEN (@ + sc.nodes[n].r) % 4 ELSE @,
               !.nodes[n].r = IF r THEN 0 ELSE @,
               !.nodes[n].t = IF t THEN <<0, 0>> ELSE @]

_freeze_trs(sc, node) == makeIdentity(sc, node, TRUE, TRUE)

_freeze_rot(sc, node) == makeIdentity(sc, node, FALSE, TRUE)

\* _create_shape_transform: cmds.circle, then cmds.xform to the world origin
_create_shape_transform(sc, name) ==
    SetWorld(CreateTransform(sc, name), name, Identity)

is_joint(sc, n) == sc.nodes[n].type = "joint"

\* the target if it is a joint, else its nearest joint ancestor
RECURSIVE StartJoint(_, _)
StartJoint(sc, n) ==
    IF is_joint(sc, n) THEN n
    ELSE IF sc.nodes[n].parent = NoParent THEN NoParent
    ELSE StartJoint(sc, sc.nodes[n].parent)

\* up the chain while the parent is a joint
RECURSIVE TopJoint(_, _)
TopJoint(sc, cur) ==
    IF sc.nodes[cur].parent # NoParent /\ is_joint(sc, sc.nodes[cur].parent)
    THEN TopJoint(sc, sc.nodes[cur].parent)
    ELSE cur

\* parts[0] of the full path
RECURSIVE TopAncestor(_, _)
TopAncestor(sc, n) ==
    IF sc.nodes[n].parent = NoParent THEN n ELSE TopAncestor(sc, sc.nodes[n].parent)

_find_joint_root_name(sc, target) ==
    LET n == Resolve(sc, target)
    IN  IF n = NoParent THEN _safe_name_from_target(target)
        ELSE IF StartJoint(sc, n) # NoParent
        THEN _safe_name_from_target(LongName(sc, TopJoint(sc, StartJoint(sc, n))))
        ELSE _safe_name_from_target(TopAncestor(sc, n))

RECURSIVE Ancestors(_, _)
Ancestors(sc, n) ==
    IF sc.nodes[n].parent = NoParent THEN {}
    ELSE {sc.nodes[n].parent} \cup Ancestors(sc, sc.nodes[n].parent)

\* cmds.parent(child, new_parent) raises: already its child, or a cycle
ParentFails(sc, child, new_parent) ==
    \/ child = new_parent
    \/ sc.nodes[child].parent = new_parent
    \/ child \in Ancestors(sc, new_parent)

\* cmds.parent(child, new_parent, relative=True): the local values are kept
ParentRelative(sc, child, new_parent) ==
    [sc EXCEPT !.nodes[child].parent = new_parent]

\* cmds.parent(child, new_parent): the world transform is kept
Parent(sc, child, new_parent) ==
    SetWorld(ParentRelative(sc, child, new_parent), child, WorldOf(sc, child))

\* A plausible slip: the group is parented with its local values kept.
_parent_preserve_world_relative(sc, child, new_parent) ==
    ParentRelative(sc, child, new_parent)

_parent_preserve_world(sc, child, new_parent) ==
    LET child_m == WorldOf(sc, child)
    IN  SetWorld(Parent(sc, child, new_parent), child, child_m)

Constraint(kind, driver, driven, mo) ==
    [kind |-> kind, driver |-> driver, driven |-> driven, mo |-> mo]

\* _constrain_target_to_ctrl; without maintain offset the constraint moves
\* the target onto the controller
_constrain_target_to_ctrl(sc, target, ctrl, maintain_offset, use_scale_constraint) ==
    LET driven == Resolve(sc, target)
        moved == IF maintain_offset THEN sc
                 ELSE SetWorld(sc, driven, WorldOf(sc, ctrl))
    IN  [moved EXCEPT !.cons =
            @ \cup {Constraint("parentConstraint", ctrl, driven, maintain_offset)}
              \cup (IF use_scale_constraint
                    THEN {Constraint("scaleConstraint", ctrl, driven, maintain_offset)}
                    ELSE {})]

\* input_name.strip() or "CTL"
InputName(input_name) ==
    IF Strip(input_name) = <<>> THEN <<"C", "T", "L">> ELSE Strip(input_name)

\* target_to_ctrl / target_to_grp: the last entry made for a target, 0 if none
EntryFor(log, t) ==
    LET made == {i \in 1..Len(log) : log[i].target = t /\ ~log[i].raised}
    IN  IF made = {} THEN 0 ELSE CHOOSE i \in made : \A k \in made : k <= i

\* _mirror_joint_hierarchy_with_controllers; cmds.listRelatives on a target
\* that does not exist raises and ends the loop
RECURSIVE MirrorLoop(_, _, _, _)
MirrorLoop(sc, targets, log, i) ==
    IF i > Len(targets) THEN sc
    ELSE LET t == targets[i]
             n == Resolve(sc, t)
         IN  IF n = NoParent THEN sc
             ELSE IF sc.nodes[n].parent = NoParent
             THEN MirrorLoop(sc, targets, log, i + 1)
             ELSE LET p == LongName(sc, sc.nodes[n].parent)
                  IN  IF EntryFor(log, p) = 0 \/ EntryFor(log, t) = 0
                      THEN MirrorLoop(sc, targets, log, i + 1)
                      ELSE LET child_grp == log[EntryFor(log, t)].grp
                               parent_ctrl == log[EntryFor(log, p)].ctrl
                           IN  MirrorLoop(
                                 IF ParentFails(sc, child_grp, parent_ctrl) THEN sc
                                 ELSE _parent_preserve_world(sc, child_grp, parent_ctrl),
                                 targets, log, i + 1)

_mirror_joint_hierarchy_with_controllers(sc, targets, log) ==
    MirrorLoop(sc, targets, log, 1)

(***************************************************************************)
(* SpecCtrl: one batch of the Controller Creator window on a scene with a  *)
(* joint chain r > j and a locator n:L under a group g.  The batch runs    *)
(* create_controller_for_target on each target of the list, a few Maya     *)
(* commands at a time; c_job holds the position and the local variables.   *)
(***************************************************************************)
R_JOINT == <<"r">>
J_JOINT == <<"j">>
G_GROUP == <<"g">>
LOCATOR == <<"n", ":", "L">>
OLD_ROOT == <<"r", "_", "C", "T", "L", "_", "G", "R", "P">>

\* the entries of the target list: full paths, one of a node deleted since
\* the list was refreshed
TargetPaths ==
    {<<"|", "r">>, <<"|", "r", "|", "j">>, <<"|", "g", "|", "n", ":", "L">>,
     <<"|", "z">>}

TargetLists == SeqsUpTo(TargetPaths, MaxTargets) \ {<<>>}

\* the window's options
CtrlOptions ==
    {[input_name |-> IF mo THEN <<"F", " ">> ELSE <<" ">>,
      orientation_mode |-> mode,
      maintain_offset |-> mo,
      use_scale_constraint |-> mo,
      build_hierarchy |-> h] :
        mode \in {"match", "world"}, mo \in BOOLEAN, h \in BOOLEAN}

JobIdle ==
    [pc |-> "idle", targets |-> <<>>, opts |-> <<>>, i |-> 0, before |-> <<>>,
     ctrl |-> NoParent, root_grp |-> NoParent, offset_grp |-> NoParent]

InitCtrl ==
    /\ \E rt \in {<<0, 0>>, <<1, 2>>}, rr \in {0, 1}, old \in BOOLEAN :
          scene =
            [nodes |->
                (R_JOINT :> Node("joint", NoParent, rt, rr)) @@
                (J_JOINT :> Node("joint", R_JOINT, <<1, 0>>, 3)) @@
                (G_GROUP :> Node("transform", NoParent, <<0, 1>>, 2)) @@
                (LOCATOR :> Node("transform", G_GROUP, <<1, 1>>, 1)) @@
                (IF old THEN OLD_ROOT :> Node("transform", NoParent, <<2, 0>>, 1)
                 ELSE <<>>),
             cons |-> {}]
    /\ c_log = <<>>
    /\ c_job = JobIdle
    /\ EncIdle
    /\ MatchIdle
    /\ ShelfIdle
    /\ ToolIdle

ctrlFrame == <<matchVars, encVars, shelves, s_last, toolVars>>

\* what one call of create_controller_for_target in the batch did
LogEntry(raised) ==
    [target |-> c_job.targets[c_job.i], opts |-> c_job.opts,
     before |-> c_job.before, raised |-> raised, ctrl |-> c_job.ctrl,
     grp |-> c_job.offset_grp, after |-> scene']

\* the batch after the call for target i: the next target, then 2) the
\* hierarchy if it is asked for and a controller was made
NextTarget(log) ==
    [c_job EXCEPT
        !.pc = IF c_job.i < Len(c_job.targets) THEN "create"
               ELSE IF c_job.opts.build_hierarchy
                       /\ \E k \in 1..Len(log) : ~log[k].raised
               THEN "mirror" ELSE "done",
        !.i = @ + 1]

\* _UI.create_for_all / create_for_selected: _create_batch reads the options
create_batch ==
    /\ c_job.pc = "idle"
    /\ \E targets \in TargetLists, opts \in CtrlOptions :
          c_job' = [JobIdle EXCEPT !.pc = "create", !.targets = targets,
                                   !.opts = opts, !.i = 1]
    /\ UNCHANGED <<scene, c_log, ctrlFrame>>

\* create_controller_for_target: the target check, the names, 1) the shape
\* at the origin and 2) the freeze.  A RuntimeError is caught by the batch.
create_shape ==
    /\ c_job.pc = "create"
    /\ LET target == c_job.targets[c_job.i]
           base == _safe_name_from_target(target)
           name == InputName(c_job.opts.input_name)
           desired_ctrl_name ==
               _unique_name(scene, base \o <<"_">> \o name \o <<"_", "C", "T", "L">>)
           root_name == _find_joint_root_name(scene, target)
           desired_root_grp_name ==
               root_name \o <<"_">> \o name \o <<"_", "G", "R", "P">>
           desired_offset_grp_name ==
               _unique_name(scene, base \o <<"_">> \o name
                                     \o <<"_", "C", "T", "L", "_", "G", "R", "P">>)
       IN  IF ~objExists(scene, target)
           THEN /\ scene' = scene
                /\ c_log' = Append(c_log,
                      [target |-> target, opts |-> c_job.opts, before |-> scene,
                       raised |-> TRUE, ctrl |-> NoParent, grp |-> NoParent,
                       after |-> scene])
                /\ c_job' = NextTarget(c_log')
           ELSE /\ scene' = _freeze_trs(
                      _create_shape_transform(scene, desired_ctrl_name),
                      desired_ctrl_name)
                /\ c_job' = [c_job EXCEPT !.pc = "root", !.before = scene,
                                          !.ctrl = desired_ctrl_name,
                                          !.root_grp = desired_root_grp_name,
                                          !.offset_grp = desired_offset_grp_name]
                /\ UNCHANGED c_log
    /\ UNCHANGED ctrlFrame

\* _make_offset_group: the root container is reused, or made at the origin
make_root_group ==
    /\ c_job.pc = "root"
    /\ scene' = IF objExists(scene, c_job.root_grp) THEN scene
                ELSE SetWorld(CreateTransform(scene, c_job.root_grp),
                              c_job.root_grp, Identity)
    /\ c_job' = [c_job EXCEPT !.pc = "offset"]
    /\ UNCHANGED <<c_log, ctrlFrame>>

\* _make_offset_group: the offset group is made unparented and 1) snapped to
\* the target: parentConstraint(target, offset_grp, mo=False), then deleted
make_offset_group ==
    /\ c_job.pc = "offset"
    /\ LET offset_grp == IF objExists(scene, c_job.offset_grp)
                         THEN _unique_name(scene, c_job.offset_grp)
                         ELSE c_job.offset_grp
           target == Resolve(scene, c_job.targets[c_job.i])
       IN  /\ scene' = SetWorld(CreateTransform(scene, offset_grp), offset_grp,
                                WorldOf(scene, target))
           /\ c_job' = [c_job EXCEPT !.pc = "ctrl", !.offset_grp = offset_grp]
    /\ UNCHANGED <<c_log, ctrlFrame>>

\* the controller's rotation in world mode: world rotation 0, then
\* _freeze_rot, then the channels reset
WorldModeCleanup(sc, ctrl) ==
    LET turned == [sc EXCEPT !.nodes[ctrl].r = (4 - ParentWorld(sc, ctrl).r) % 4]
        frozen == _freeze_rot(turned, ctrl)
    IN  [frozen EXCEPT !.nodes[ctrl].t = <<0, 0>>, !.nodes[ctrl].r = 0]

\* _make_offset_group: 3) the controller goes under the offset group with its
\* local values kept; world mode cleans its rotation
parent_ctrl ==
    /\ c_job.pc = "ctrl"
    /\ LET parented == ParentRelative(scene, c_job.ctrl, c_job.offset_grp)
       IN  scene' = IF c_job.opts.orientation_mode = "world"
                    THEN WorldModeCleanup(parented, c_job.ctrl)
                    ELSE parented
    /\ c_job' = [c_job EXCEPT !.pc = "parent"]
    /\ UNCHANGED <<c_log, ctrlFrame>>

\* _make_offset_group: 4) the offset group goes under the root container
parent_offset_group ==
    /\ c_job.pc = "parent"
    /\ scene' = _parent_preserve_world(scene, c_job.offset_grp,
                                       Resolve(scene, c_job.root_grp))
    /\ c_job' = [c_job EXCEPT !.pc = "constrain"]
    /\ UNCHANGED <<c_log, ctrlFrame>>

\* create_controller_for_target: 4) the constraints, and the return
constrain_target ==
    /\ c_job.pc = "constrain"
    /\ scene' = _constrain_target_to_ctrl(scene, c_job.targets[c_job.i], c_job.ctrl,
                    c_job.opts.maintain_offset, c_job.opts.use_scale_constraint)
    /\ c_log' = Append(c_log, LogEntry(FALSE))
    /\ c_job' = NextTarget(c_log')
    /\ UNCHANGED ctrlFrame

\* _create_batch: 2) the groups go under the parents' controllers
mirror_hierarchy ==
    /\ c_job.pc = "mirror"
    /\ scene' = _mirror_joint_hierarchy_with_controllers(scene, c_job.targets, c_log)
    /\ c_job' = [c_job EXCEPT !.pc = "done"]
    /\ UNCHANGED <<c_log, ctrlFrame>>

NextCtrl ==
    \/ create_batch
    \/ create_shape
    \/ make_root_group
    \/ make_offset_group
    \/ parent_ctrl
    \/ parent_offset_group
    \/ constrain_target
    \/ mirror_hierarchy

SpecCtrl == InitCtrl /\ [][NextCtrl]_vars

\* C9: after create_controller_for_target succeeds for a target, the new
\* controller's parent is a newly created offset group snapped to the target,
\* the offset group's parent is the root container {jointRoot}_{InputName}_GRP,
\* the controller's local translate and rotate are zero in both orientation
\* modes, and the target is parent-constrained to the controller.
C9_EntryOk(e) ==
    LET nodes == e.after.nodes
        target == Resolve(e.before, e.target)
    IN  /\ e.ctrl \in DOMAIN nodes \ DOMAIN e.before.nodes
        /\ e.grp \in DOMAIN nodes \ DOMAIN e.before.nodes
        /\ nodes[e.ctrl].parent = e.grp
        /\ WorldOf(e.after, e.grp) = WorldOf(e.before, target)
        /\ nodes[e.grp].parent =
              _find_joint_root_name(e.before, e.target) \o <<"_">>
                  \o InputName(e.opts.input_name) \o <<"_", "G", "R", "P">>
        /\ nodes[e.ctrl].t = <<0, 0>>
        /\ nodes[e.ctrl].r = 0
        /\ \E c \in e.after.cons :
              c.kind = "parentConstraint" /\ c.driver = e.ctrl /\ c.driven = target

C9_Hierarchy ==
    \A i \in 1..Len(c_log) : ~c_log[i].raised => C9_EntryOk(c_log[i])

\* a controller made in world mode for a turned target, under a root
\* container that was already in the scene, moved and turned
C9_Witness ==
    \E i \in 1..Len(c_log) :
        LET e == c_log[i]
        IN  /\ ~e.raised
            /\ e.opts.orientation_mode = "world"
            /\ WorldOf(e.before, Resolve(e.before, e.target)).r # 0
            /\ e.after.nodes[e.grp].parent \in DOMAIN e.before.nodes
            /\ WorldOf(e.after, e.after.nodes[e.grp].parent) # Identity
            /\ e.after.nodes[e.ctrl].bake # 0

(***************************************************************************)
(* Maya drag-and-drop installer (src/maya/CV_Scaler/drag_and_drop.py).     *)
(* The shelf UI maps the name of each shelf tab to its child controls in   *)
(* order; a control has a name, a type and a label.                        *)
(***************************************************************************)
Control(type, label) == [type |-> type, label |-> label]

\* the loop over kids, the controls of the shelf when the loop starts:
\* cmds.shelfButton(k, q=True, l=True) raises on a control that is not a
\* shelf button and the exception is passed over; cmds.deleteUI(k) deletes
\* control k.  The result is the set of the deleted controls' positions.
RECURSIVE RemoveLoop(_, _, _, _)
RemoveLoop(kids, label, i, deleted) ==
    IF i > Len(kids) THEN deleted
    ELSE RemoveLoop(kids, label, i + 1,
            IF kids[i].type = "shelfButton" /\ kids[i].label = label
            THEN deleted \cup {i} ELSE deleted)

\* the controls left on the shelf, in order
RECURSIVE Remaining(_, _, _)
Remaining(kids, deleted, i) ==
    IF i > Len(kids) THEN <<>>
    ELSE (IF i \in deleted THEN <<>> ELSE <<kids[i]>>) \o Remaining(kids, deleted, i + 1)

\* cmds.shelfLayout(shelf_name, ...) when the shelf does not exist
EnsureShelf(ui, shelf_name) ==
    IF shelf_name \in DOMAIN ui THEN ui ELSE (shelf_name :> <<>>) @@ ui

\* cmds.shelfButton(parent=shelf_name, l=label, ...)
shelfButton(ui, shelf_name, label) ==
    [ui EXCEPT ![shelf_name] = Append(@, Control("shelfButton", label))]

\* A plausible slip: the button is added without removing the old ones.
_ensure_shelf_button_append(ui, shelf_name, label) ==
    shelfButton(EnsureShelf(ui, shelf_name), shelf_name, label)

_ensure_shelf_button(ui, shelf_name, label) ==
    LET made == EnsureShelf(ui, shelf_name)
        kids == made[shelf_name]
        deleted == RemoveLoop(kids, label, 1, {})
    IN  shelfButton([made EXCEPT ![shelf_name] = Remaining(kids, deleted, 1)],
                    shelf_name, label)

(***************************************************************************)
(* SpecShelf: installer runs and calls of _ensure_shelf_button, between    *)
(* which the user adds controls to the shelves and deletes shelves.        *)
(***************************************************************************)
SHELF_NAME == "Python"
BUTTON_LABEL == "CV_Scaler"

ShelfNames == {SHELF_NAME, "Custom"}
Labels == {BUTTON_LABEL, "Other"}

ButtonsLabelled(ui, shelf_name, label) ==
    {i \in 1..Len(ui[shelf_name]) :
        ui[shelf_name][i].type = "shelfButton" /\ ui[shelf_name][i].label = label}

\* the call, and what the shelf held before it
ShelfCall(op, shelf_name, label) ==
    [op |-> op, shelf |-> shelf_name, label |-> label,
     existed |-> shelf_name \in DOMAIN shelves,
     had |-> IF shelf_name \in DOMAIN shelves
             THEN Cardinality(ButtonsLabelled(shelves, shelf_name, label)) ELSE 0,
     others |-> IF shelf_name \in DOMAIN shelves
                THEN Len(shelves[shelf_name])
                     - Cardinality(ButtonsLabelled(shelves, shelf_name, label))
                ELSE 0]

InitShelf ==
    /\ shelves \in {<<>>, (SHELF_NAME :> <<>>),
                    (SHELF_NAME :> <<Control("shelfButton", BUTTON_LABEL),
                                     Control("shelfButton", BUTTON_LABEL)>>)}
    /\ s_last = [op |-> "init", shelf |-> "", label |-> "", existed |-> FALSE,
                 had |-> 0, others |-> 0]
    /\ EncIdle
    /\ MatchIdle
    /\ CtrlIdle
    /\ ToolIdle

shelfFrame == <<matchVars, encVars, scene, c_job, c_log, toolVars>>

\* main(): the installer run, as far as the shelf goes
main ==
    /\ shelves' = _ensure_shelf_button(shelves, SHELF_NAME, BUTTON_LABEL)
    /\ s_last' = ShelfCall("main", SHELF_NAME, BUTTON_LABEL)
    /\ UNCHANGED shelfFrame

\* _ensure_shelf_button called with another shelf or label
CallEnsureShelfButton ==
    /\ \E shelf_name \in ShelfNames, label \in Labels :
          /\ shelves' = _ensure_shelf_button(shelves, shelf_name, label)
          /\ s_last' = ShelfCall("_ensure_shelf_button", shelf_name, label)
    /\ UNCHANGED shelfFrame

\* the user puts a button or a separator on a shelf
UserAddControl ==
    /\ \E shelf_name \in DOMAIN shelves,
          c \in {Control("shelfButton", l) : l \in Labels}
                \cup {Control("separator", BUTTON_LABEL)} :
          /\ Len(shelves[shelf_name]) < MaxChildren
          /\ shelves' = [shelves EXCEPT ![shelf_name] = Append(@, c)]
          /\ s_last' = ShelfCall("user", shelf_name, c.label)
    /\ UNCHANGED shelfFrame

\* the user deletes a shelf tab
UserDeleteShelf ==
    /\ \E shelf_name \in DOMAIN shelves :
          /\ shelves' = [sh \in DOMAIN shelves \ {shelf_name} |-> shelves[sh]]
          /\ s_last' = ShelfCall("user", shelf_name, "")
    /\ UNCHANGED shelfFrame

NextShelf == main \/ CallEnsureShelfButton \/ UserAddControl \/ UserDeleteShelf

SpecShelf == InitShelf /\ [][NextShelf]_vars

\* C10: after _ensure_shelf_button(shelf, label, icon, cmd) returns, the shelf
\* exists and contains exactly one button whose label is label, however many
\* times the installer has been run before.
C10_OneButton ==
    (s_last.op \in {"main", "_ensure_shelf_button"}) =>
        /\ s_last.shelf \in DOMAIN shelves
        /\ Cardinality(ButtonsLabelled(shelves, s_last.shelf, s_last.label)) = 1

\* a call on a shelf that held two buttons with the label and a separator,
\* with another shelf beside it
C10_Witness ==
    /\ s_last.op = "_ensure_shelf_button"
    /\ s_last.existed
    /\ s_last.had >= 2
    /\ s_last.others >= 1
    /\ \E i \in 1..Len(shelves[s_last.shelf]) :
          shelves[s_last.shelf][i].type = "separator"
    /\ \E sh \in DOMAIN shelves : sh # s_last.shelf

(***************************************************************************)
(* Simple_Picker drag-and-drop installers                                  *)
(* (src/maya/Simple_Picker/drag_and_drop_installer.py, which writes a .mod *)
(* file, and src/maya/simple_picker/drag_and_drop_installer_sp.py, which   *)
(* copies scripts/ into the tool's folder itself and labels the button     *)
(* with the version).  A folder of scripts is the pair of what the         *)
(* installers look at: whether main.py is in it and the version its        *)
(* __init__.py declares ("none": no __init__.py, or no version in it).     *)
(***************************************************************************)
ScriptsDir(has_main, version) == [main |-> has_main, version |-> version]

\* os.path.isfile(os.path.join(src_scripts, "main.py"))
HasMain(tool) == ~IsNone(tool.scripts) /\ TheVal(tool.scripts).main

\* _get_version_from_init(src_scripts): None without __init__.py or version
_get_version_from_init(tool) ==
    IF IsNone(tool.scripts) THEN "None"
    ELSE IF TheVal(tool.scripts).version = "none" THEN "None"
    ELSE TheVal(tool.scripts).version

\* os.path.basename(tool_root): the folder of each installer in the repository
ToolName(tool) == IF tool.installer = "mod" THEN "Simple_Picker" ELSE "simple_picker"

DEFAULT_SHELF_TAB_NAME(tool) == IF tool.installer = "mod" THEN "Python" ELSE "PyTools"

\* none of the characters of the two tab names is replaced
_sanitize_shelf_name(name) == name

\* the label of the shelf button: tool_name, or tool_name_with_virsion
ButtonLabel(tool) ==
    IF tool.installer = "mod" THEN <<ToolName(tool)>>
    ELSE <<ToolName(tool), "v", _get_version_from_init(tool)>>

\* _copy_subdir(src_scripts, dst_scripts): nothing when src is no folder;
\* else dst is removed with all it holds and src is copied there.  In the
\* sp installer dst_scripts is dst_root, which holds the icon folder too.
CopyScripts(tool, user) ==
    IF IsNone(tool.scripts) THEN user
    ELSE IF tool.installer = "mod" THEN [user EXCEPT !.scripts = tool.scripts]
    ELSE [user EXCEPT !.root = tool.scripts, !.scripts = NoneVal, !.icon = FALSE]

\* _copy_subdir(src_icons, dst_icon)
CopyIcons(tool, user) ==
    IF tool.icon THEN [user EXCEPT !.icon = TRUE] ELSE user

\* _ensure_mod_file: the version of the copied scripts/__init__.py, or "1.0"
_ensure_mod_file(user) ==
    LET version == IF IsNone(user.scripts) \/ TheVal(user.scripts).version = "none"
                   THEN "1.0" ELSE TheVal(user.scripts).version
    IN  [user EXCEPT !.mod = Some(version)]

\* _remove_existing_shelf_button.  cmds.control(child, query=True,
\* label=True) is outside the try: with query_ok it answers the label of
\* the child, without it the call raises on the first child.
RECURSIVE RemoveLabelled(_, _)
RemoveLabelled(kids, label) ==
    IF kids = <<>> THEN <<>>
    ELSE (IF Head(kids).label = label THEN <<>> ELSE <<Head(kids)>>)
         \o RemoveLabelled(Tail(kids), label)

_remove_existing_shelf_button(ui, shelf_name, label, query_ok) ==
    IF shelf_name \notin DOMAIN ui THEN Returned(ui)
    ELSE IF ui[shelf_name] # <<>> /\ ~query_ok THEN Raised("TypeError")
    ELSE Returned([ui EXCEPT ![shelf_name] = RemoveLabelled(@, label)])

\* add_to_shelf of shelves/add_to_shelf.mel: the tab is made when it is
\* missing and a button with the label is put on it
_call_add_to_shelf(ui, shelf_name, label) ==
    shelfButton(EnsureShelf(ui, shelf_name), shelf_name, label)

InstallResult(outcome, user, ui) == [outcome |-> outcome, user |-> user, ui |-> ui]

\* A plausible slip: the folders are copied before the files are looked for.
install_tool_copy_first(tool, user, ui, query_ok) ==
    LET copied == CopyIcons(tool, CopyScripts(tool, user))
    IN  InstallResult(Raised("FileNotFoundError"), copied, ui)

install_tool(tool, user, ui, query_ok) ==
    IF ~HasMain(tool) THEN InstallResult(Raised("FileNotFoundError"), user, ui)
    ELSE IF ~tool.mel THEN InstallResult(Raised("FileNotFoundError"), user, ui)
    ELSE
    LET copied == CopyIcons(tool, CopyScripts(tool, user))
        written == IF tool.installer = "mod" THEN _ensure_mod_file(copied) ELSE copied
        shelf_name == _sanitize_shelf_name(DEFAULT_SHELF_TAB_NAME(tool))
        removed == _remove_existing_shelf_button(ui, shelf_name, ButtonLabel(tool),
                                                 query_ok)
    IN  IF removed.raised THEN InstallResult(removed, written, ui)
        ELSE InstallResult(Returned(NoneVal), written,
                           _call_add_to_shelf(removed.value, shelf_name,
                                              ButtonLabel(tool)))

\* the classes that "except Exception" catches
ExceptionClasses == {"FileNotFoundError", "TypeError"}

(***************************************************************************)
(* SpecInstall: the installer file is dropped on the viewport, or          *)
(* install_tool is called, between which the user changes the files of the *)
(* tool folder and puts buttons on the shelf.                              *)
(***************************************************************************)
Versions == {"none", "2.0"}

ScriptsChoices ==
    {NoneVal} \cup {Some(ScriptsDir(m, v)) : m \in BOOLEAN, v \in Versions}

ToolRoots(installer) ==
    {[installer |-> installer, scripts |-> sc, icon |-> ic, mel |-> ml] :
        sc \in ScriptsChoices, ic \in BOOLEAN, ml \in BOOLEAN}

NothingInstalled == [root |-> NoneVal, scripts |-> NoneVal, icon |-> FALSE, mod |-> NoneVal]

ILastInit == [op |-> "init", outcome |-> Returned(NoneVal), reported |-> "none",
              propagated |-> FALSE, tool |-> <<>>, before_user |-> <<>>,
              before_ui |-> <<>>]

InitInstall ==
    /\ \E installer \in {"mod", "sp"} : tool_root \in ToolRoots(installer)
    /\ user_dir = NothingInstalled
    /\ shelves = <<>>
    /\ s_last = <<>>
    /\ i_last = ILastInit
    /\ EncIdle
    /\ MatchIdle
    /\ CtrlIdle
    /\ CvIdle
    /\ NrIdle
    /\ PkIdle
    /\ UeIdle
    /\ RcIdle

installFrame == <<matchVars, encVars, scene, c_job, c_log, s_last, cvVars, nrVars, pkVars, ueVars, rcVars>>

\* install_tool() called by itself: its exception reaches the caller
CallInstallTool ==
    /\ \E query_ok \in BOOLEAN :
          LET res == install_tool(tool_root, user_dir, shelves, query_ok)
          IN  /\ user_dir' = res.user
              /\ shelves' = res.ui
              /\ i_last' = [op |-> "install_tool", outcome |-> res.outcome,
                            reported |-> "none",
                            propagated |-> res.outcome.raised,
                            tool |-> tool_root, before_user |-> user_dir,
                            before_ui |-> shelves]
    /\ UNCHANGED <<tool_root, installFrame>>

\* onMayaDroppedPythonFile: try install_tool(), except Exception report it
onMayaDroppedPythonFile ==
    /\ \E query_ok \in BOOLEAN :
          LET res == install_tool(tool_root, user_dir, shelves, query_ok)
              raised == res.outcome.raised
              caught == raised /\ res.outcome.exc \in ExceptionClasses
          IN  /\ user_dir' = res.user
              /\ shelves' = res.ui
              /\ i_last' = [op |-> "onMayaDroppedPythonFile",
                            outcome |-> res.outcome,
                            reported |-> IF ~raised THEN "completed"
                                         ELSE IF caught THEN "failed" ELSE "none",
                            propagated |-> raised /\ ~caught,
                            tool |-> tool_root, before_user |-> user_dir,
                            before_ui |-> shelves]
    /\ UNCHANGED <<tool_root, installFrame>>

\* the user adds or removes files of the tool folder
UserEditTool ==
    /\ \E t \in ToolRoots(tool_root.installer) :
          /\ t # tool_root
          /\ tool_root' = t
    /\ i_last' = [ILastInit EXCEPT !.op = "user"]
    /\ UNCHANGED <<user_dir, shelves, installFrame>>

\* the user puts a button on the installer's shelf tab
UserAddButton ==
    /\ \E label \in {ButtonLabel(tool_root), <<"Other">>} :
          LET shelf_name == DEFAULT_SHELF_TAB_NAME(tool_root)
              made == EnsureShelf(shelves, shelf_name)
          IN  /\ Len(made[shelf_name]) < MaxChildren
              /\ shelves' = shelfButton(made, shelf_name, label)
    /\ i_last' = [ILastInit EXCEPT !.op = "user"]
    /\ UNCHANGED <<tool_root, user_dir, installFrame>>

NextInstall ==
    CallInstallTool \/ onMayaDroppedPythonFile \/ UserEditTool \/ UserAddButton

SpecInstall == InitInstall /\ [][NextInstall]_vars

\* C11: when scripts/main.py or shelves/add_to_shelf.mel is missing from the
\* tool root, install_tool raises FileNotFoundError and has changed no file
\* of the user folders, written no .mod file and left the shelves as they
\* were; onMayaDroppedPythonFile reports the failure and does not let the
\* exception out.
C11_MissingFileAborts ==
    (/\ i_last.op \in {"install_tool", "onMayaDroppedPythonFile"}
     /\ (~HasMain(i_last.tool) \/ ~i_last.tool.mel)) =>
        /\ i_last.outcome = Raised("FileNotFoundError")
        /\ user_dir = i_last.before_user
        /\ shelves = i_last.before_ui
        /\ tool_root = i_last.tool
        /\ (i_last.op = "install_tool") => i_last.propagated
        /\ (i_last.op = "onMayaDroppedPythonFile") =>
                (i_last.reported = "failed" /\ ~i_last.propagated)

\* the installer is dropped again after add_to_shelf.mel was taken away from
\* a tool that is installed and has its button on the shelf
C11_Witness ==
    /\ i_last.op = "onMayaDroppedPythonFile"
    /\ HasMain(i_last.tool)
    /\ i_last.tool.icon
    /\ ~i_last.tool.mel
    /\ i_last.before_user # NothingInstalled
    /\ DEFAULT_SHELF_TAB_NAME(i_last.tool) \in DOMAIN i_last.before_ui
    /\ \E i \in 1..Len(i_last.before_ui[DEFAULT_SHELF_TAB_NAME(i_last.tool)]) :
          i_last.before_ui[DEFAULT_SHELF_TAB_NAME(i_last.tool)][i].label
              = ButtonLabel(i_last.tool)

(***************************************************************************)
(* Maya CV_Scaler (src/maya/CV_Scaler/scripts/cv_scaler_main.py).          *)
(* The scene holds transforms with a rotate pivot and shapes below them;   *)
(* a NURBS shape has CVs, here one coordinate each.  A cluster deforms the *)
(* CVs of its shape about the pivot of its handle by the handle's scale;   *)
(* deleting the handle deletes the cluster and the shape is as before.     *)
(***************************************************************************)
X_CURVE == "curve"          \* a transform with one nurbsCurve
X_CTRL == "ctrl"            \* a transform with a nurbsCurve and a nurbsSurface
X_CUBE == "cube"            \* a transform with a mesh
Transforms == {X_CURVE, X_CTRL, X_CUBE}

\* cmds.ls(sl=True, long=True) answers the selection in this order
NodeOrder == <<X_CURVE, X_CTRL, X_CUBE>>

\* cmds.listRelatives(node, shapes=True, fullPath=True)
ShapesOf(node) ==
    IF node = X_CURVE THEN <<"curveShape">>
    ELSE IF node = X_CTRL THEN <<"ctrlShape", "ctrlShape1">>
    ELSE IF node = X_CUBE THEN <<"cubeShape">>
    ELSE <<>>

\* cmds.nodeType(shape)
nodeType(shape) ==
    IF shape \in {"curveShape", "ctrlShape"} THEN "nurbsCurve"
    ELSE IF shape = "ctrlShape1" THEN "nurbsSurface"
    ELSE "mesh"

NurbsShapes == {"curveShape", "ctrlShape", "ctrlShape1"}

\* _pivot_world_pos(transform)
_pivot_world_pos(transform) == IF transform = X_CTRL THEN 1 ELSE 0

\* the names cmds.cluster(name="cvScalerTmpCluster#") gives to the handles
HandleNames == <<"cvScalerTmpCluster1Handle", "cvScalerTmpCluster2Handle",
                 "cvScalerTmpCluster3Handle">>

\* cmds.objExists(h)
HandleExists(sc, h) == h \in DOMAIN sc.clusters

\* where a CV is seen: its own position, deformed by the cluster on its shape
Seen(sc, shape) ==
    IF \E h \in DOMAIN sc.clusters : sc.clusters[h].shape = shape
    THEN LET h == CHOOSE k \in DOMAIN sc.clusters : sc.clusters[k].shape = shape
             c == sc.clusters[h]
         IN  c.pivot + c.scale * (sc.cvs[shape] - c.pivot)
    ELSE sc.cvs[shape]

\* _selected_nurbs_shapes(): (transform, shape) of the selection
RECURSIVE SelectedPairs(_, _)
SelectedPairs(sc, i) ==
    IF i > Len(NodeOrder) THEN <<>>
    ELSE LET node == NodeOrder[i]
             shapes == ShapesOf(node)
             mine == IF node \in sc.sel
                     THEN SelectSeq([j \in 1..Len(shapes) |-> <<node, shapes[j]>>],
                                    LAMBDA pr : nodeType(pr[2]) \in
                                                  {"nurbsCurve", "nurbsSurface"})
                     ELSE <<>>
         IN  mine \o SelectedPairs(sc, i + 1)

_selected_nurbs_shapes(sc) == SelectedPairs(sc, 1)

\* cmds.delete(h): the handle and its cluster go, also from the selection
DeleteHandle(sc, h) ==
    [sc EXCEPT !.clusters = [k \in DOMAIN sc.clusters \ {h} |-> sc.clusters[k]],
               !.sel = sc.sel \ {h}]

\* _clear_preview(): the loop over _PREVIEW["handles"]
RECURSIVE ClearLoop(_, _, _)
ClearLoop(sc, handles, i) ==
    IF i > Len(handles) THEN sc
    ELSE ClearLoop(IF HandleExists(sc, handles[i]) THEN DeleteHandle(sc, handles[i])
                   ELSE sc,
                   handles, i + 1)

NoPreview == [handles |-> <<>>, factor |-> 1]

_clear_preview(sc, preview) ==
    [scene |-> ClearLoop(sc, preview.handles, 1), preview |-> NoPreview]

\* cmds.cluster(comps, name="cvScalerTmpCluster#"): the first free name;
\* the new handle is the selection afterwards.  Then the handle's pivots.
FreeHandle(sc) ==
    HandleNames[CHOOSE i \in 1..Len(HandleNames) :
        /\ HandleNames[i] \notin DOMAIN sc.clusters
        /\ \A j \in 1..(i - 1) : HandleNames[j] \in DOMAIN sc.clusters]

RECURSIVE CreateLoop(_, _, _, _)
CreateLoop(sc, pairs, i, handles) ==
    IF i > Len(pairs) THEN [scene |-> sc, handles |-> handles]
    ELSE LET h == FreeHandle(sc)
             c == [shape |-> pairs[i][2], pivot |-> _pivot_world_pos(pairs[i][1]),
                   scale |-> 1]
         IN  CreateLoop([sc EXCEPT !.clusters = (h :> c) @@ sc.clusters,
                                   !.sel = {h}],
                        pairs, i + 1, Append(handles, h))

_create_preview_clusters(sc, preview, pairs) ==
    LET cleared == _clear_preview(sc, preview)
        made == CreateLoop(cleared.scene, pairs, 1, <<>>)
    IN  [scene |-> made.scene, preview |-> [handles |-> made.handles, factor |-> 1]]

\* _update_preview_factor(factor)
RECURSIVE UpdateLoop(_, _, _, _)
UpdateLoop(sc, handles, i, factor) ==
    IF i > Len(handles) THEN sc
    ELSE UpdateLoop(IF HandleExists(sc, handles[i])
                    THEN [sc EXCEPT !.clusters[handles[i]].scale = factor]
                    ELSE sc,
                    handles, i + 1, factor)

_update_preview_factor(sc, preview, factor) ==
    IF preview.handles = <<>> THEN [scene |-> sc, preview |-> preview]
    ELSE [scene |-> UpdateLoop(sc, preview.handles, 1, factor),
          preview |-> [preview EXCEPT !.factor = factor]]

\* _scale_cvs_uniform: cmds.scale(factor, ..., components, r=True, p=pivot)
_scale_cvs_uniform(sc, shape, factor, pivot) ==
    [sc EXCEPT !.cvs[shape] = pivot + factor * (sc.cvs[shape] - pivot)]

RECURSIVE ScaleLoop(_, _, _, _)
ScaleLoop(sc, pairs, i, factor) ==
    IF i > Len(pairs) THEN sc
    ELSE ScaleLoop(_scale_cvs_uniform(sc, pairs[i][2], factor,
                                      _pivot_world_pos(pairs[i][1])),
                   pairs, i + 1, factor)

\* A plausible slip: the preview is not cleared before the commit.
_do_scale_keep_preview(sc, preview, factor) ==
    [scene |-> ScaleLoop(sc, _selected_nurbs_shapes(sc), 1, factor),
     preview |-> preview, pairs |-> _selected_nurbs_shapes(sc)]

_do_scale(sc, preview, factor) ==
    LET cleared == _clear_preview(sc, preview)
        pairs == _selected_nurbs_shapes(cleared.scene)
    IN  [scene |-> ScaleLoop(cleared.scene, pairs, 1, factor),
         preview |-> cleared.preview, pairs |-> pairs]

(***************************************************************************)
(* SpecScaler: the buttons and the slider of the window, between which the *)
(* user changes the selection and deletes cluster handles.                 *)
(***************************************************************************)
SLIDER_MAX == 3     \* the slider goes up to 3.0
Factors == 1..SLIDER_MAX

CvLast(op, factor, pairs) ==
    [op |-> op, factor |-> factor, pairs |-> pairs, before |-> cv_scene,
     preview |-> cv_ui.preview]

InitScaler ==
    /\ cv_scene = [cvs |-> [s \in NurbsShapes |->
                               IF s = "curveShape" THEN 1 ELSE 2],
                   clusters |-> <<>>, sel |-> {}]
    /\ cv_ui = [preview |-> NoPreview, slider |-> 1]
    /\ cv_last = [op |-> "init", factor |-> 1, pairs |-> <<>>, before |-> <<>>,
                  preview |-> NoPreview]
    /\ EncIdle
    /\ MatchIdle
    /\ CtrlIdle
    /\ ShelfIdle
    /\ InstIdle
    /\ NrIdle
    /\ PkIdle
    /\ UeIdle
    /\ RcIdle

scalerFrame == <<matchVars, encVars, scene, c_job, c_log, shelves, s_last, instVars, nrVars, pkVars, ueVars, rcVars>>

\* _on_slider_change: the user moves the slider
_on_slider_change ==
    /\ \E f \in Factors :
          LET res == _update_preview_factor(cv_scene, cv_ui.preview, f)
          IN  /\ f # cv_ui.slider
              /\ cv_scene' = res.scene
              /\ cv_ui' = [preview |-> res.preview, slider |-> f]
              /\ cv_last' = CvLast("slider", f, <<>>)
    /\ UNCHANGED scalerFrame

\* 'Preview From Selection'
_start_preview ==
    /\ LET pairs == _selected_nurbs_shapes(cv_scene)
       IN  IF pairs = <<>>
           THEN /\ UNCHANGED <<cv_scene, cv_ui>>
                /\ cv_last' = CvLast("preview", cv_ui.slider, pairs)
           ELSE LET made == _create_preview_clusters(cv_scene, cv_ui.preview, pairs)
                    res == _update_preview_factor(made.scene, made.preview,
                                                  cv_ui.slider)
                IN  /\ cv_scene' = res.scene
                    /\ cv_ui' = [cv_ui EXCEPT !.preview = res.preview]
                    /\ cv_last' = CvLast("preview", cv_ui.slider, pairs)
    /\ UNCHANGED scalerFrame

\* 'Apply'
_apply ==
    /\ LET res == _do_scale(cv_scene, cv_ui.preview, cv_ui.slider)
       IN  /\ \A s \in NurbsShapes : res.scene.cvs[s] \in -MaxCoord..MaxCoord
           /\ cv_scene' = res.scene
           /\ cv_ui' = [cv_ui EXCEPT !.preview = res.preview]
           /\ cv_last' = CvLast("apply", cv_ui.slider, res.pairs)
    /\ UNCHANGED scalerFrame

\* 'Cancel Preview', and the scriptJob when the window is deleted
_cancel ==
    /\ LET res == _clear_preview(cv_scene, cv_ui.preview)
       IN  /\ cv_scene' = res.scene
           /\ cv_ui' = [cv_ui EXCEPT !.preview = res.preview]
           /\ cv_last' = CvLast("cancel", cv_ui.slider, <<>>)
    /\ UNCHANGED scalerFrame

\* the user selects transforms in the scene
UserSelect ==
    /\ \E sel \in SUBSET Transforms :
          /\ sel # cv_scene.sel
          /\ cv_scene' = [cv_scene EXCEPT !.sel = sel]
    /\ cv_last' = CvLast("user", cv_ui.slider, <<>>)
    /\ UNCHANGED <<cv_ui, scalerFrame>>

\* the user deletes a cluster handle in the scene
UserDeleteHandle ==
    /\ \E h \in DOMAIN cv_scene.clusters :
          cv_scene' = DeleteHandle(cv_scene, h)
    /\ cv_last' = CvLast("user", cv_ui.slider, <<>>)
    /\ UNCHANGED <<cv_ui, scalerFrame>>

NextScaler ==
    _on_slider_change \/ _start_preview \/ _apply \/ _cancel
        \/ UserSelect \/ UserDeleteHandle

SpecScaler == InitScaler /\ [][NextScaler]_vars

\* the shapes of the pairs that _do_scale worked on
C12_Scaled == {cv_last.pairs[i][2] : i \in 1..Len(cv_last.pairs)}

NR_GROUP == "g"
NR_JOINT == "j"
NR_SHAPE == "s"
NR_MATERIAL == "m"
NR_SKIN == "k"
NR_REFERENCED == "r"
NrNodes == {NR_GROUP, NR_JOINT, NR_SHAPE, NR_MATERIAL, NR_SKIN, NR_REFERENCED}

\* cmds.nodeType(n)
NrType(n) ==
    IF n \in {NR_GROUP, NR_REFERENCED} THEN "transform"
    ELSE IF n = NR_JOINT THEN "joint"
    ELSE IF n = NR_SHAPE THEN "mesh"
    ELSE IF n = NR_MATERIAL THEN "lambert"
    ELSE "skinCluster"

IsDagNode(n) == NrType(n) \in {"transform", "joint", "mesh"}

\* n.count("|") of the long name
Depth(n) == IF n \in {NR_JOINT, NR_SHAPE} THEN 2 ELSE 1

_is_referenced(n) == n = NR_REFERENCED

DEFAULT_DEFORMER_BLACKLIST == {"skinCluster", "blendShape", "cluster", "tweak"}
SAFETY_BLACKLIST == {"shadingEngine", "materialInfo"}

ToLower(c) == IF c = "N" THEN "n" ELSE c

MatchesAt(text, remove_str, ignore_case, i) ==
    /\ i + Len(remove_str) - 1 <= Len(text)
    /\ \A k \in 1..Len(remove_str) :
          IF ignore_case THEN ToLower(text[i + k - 1]) = ToLower(remove_str[k])
          ELSE text[i + k - 1] = remove_str[k]

RECURSIVE ReplaceFrom(_, _, _, _)
ReplaceFrom(text, remove_str, ignore_case, i) ==
    IF i > Len(text) THEN <<>>
    ELSE IF MatchesAt(text, remove_str, ignore_case, i)
    THEN ReplaceFrom(text, remove_str, ignore_case, i + Len(remove_str))
    ELSE <<text[i]>> \o ReplaceFrom(text, remove_str, ignore_case, i + 1)

_replace_text(text, remove_str, ignore_case) ==
    IF remove_str = <<>> THEN text
    ELSE ReplaceFrom(text, remove_str, ignore_case, 1)

\* name.rsplit(':', 1)
_split_namespace(name) ==
    IF \E i \in 1..Len(name) : name[i] = ":"
    THEN LET p == CHOOSE i \in 1..Len(name) :
                    name[i] = ":" /\ \A j \in (i + 1)..Len(name) : name[j] # ":"
         IN  [ns |-> SubSeq(name, 1, p - 1), base |-> SubSeq(name, p + 1, Len(name))]
    ELSE [ns |-> <<>>, base |-> name]

\* new_ns, new_base and the new name, as _rename_node and the dry run
\* compute them
NewName(name, remove_str, o) ==
    LET sp == _split_namespace(name)
        new_ns == IF o.apply_ns THEN _replace_text(sp.ns, remove_str, o.ignore_case)
                  ELSE sp.ns
        new_base == _replace_text(sp.base, remove_str, o.ignore_case)
    IN  [base |-> new_base,
         name |-> (IF new_ns # <<>> THEN new_ns \o <<":">> ELSE <<>>) \o new_base]

\* cmds.ls(selection=True, long=True) answers the selection in this order
NrOrder == <<NR_GROUP, NR_JOINT, NR_REFERENCED>>

\* cmds.listRelatives(sel, allDescendents=True, fullPath=True)
Descendents(sel) == IF NR_GROUP \in sel THEN <<NR_JOINT, NR_SHAPE>> ELSE <<>>

\* a target is the long name of a node: the node, and the name it had
Target(sc, n) == [id |-> n, name |-> sc.nodes[n].name]

_gather_targets(sc, o) ==
    LET sel == SelectSeq(NrOrder, LAMBDA n : n \in sc.sel)
        dag_nodes == sel \o Descendents(sc.sel)
        dag_filtered ==
            SelectSeq(dag_nodes,
                      LAMBDA n : /\ ~_is_referenced(n)
                                 /\ \/ NrType(n) \in {"transform", "joint"}
                                    \/ o.include_shapes /\ NrType(n) = "mesh")
        connected ==
            IF \E i \in 1..Len(dag_nodes) : dag_nodes[i] = NR_SHAPE
            THEN <<NR_MATERIAL, NR_SKIN>> ELSE <<>>
        dg_nodes ==
            IF o.include_connected
            THEN SelectSeq(connected,
                    LAMBDA h : /\ ~_is_referenced(h)
                               /\ ~IsDagNode(h)
                               /\ (o.include_deformers
                                    \/ NrType(h) \notin DEFAULT_DEFORMER_BLACKLIST)
                               /\ NrType(h) \notin SAFETY_BLACKLIST)
            ELSE <<>>
        sorted == SelectSeq(dag_filtered, LAMBDA n : Depth(n) = 2)
                    \o SelectSeq(dag_filtered, LAMBDA n : Depth(n) = 1)
        all == sorted \o dg_nodes
    IN  IF sel = <<>> THEN <<>>
        ELSE [i \in 1..Len(all) |-> Target(sc, all[i])]

\* _rename_node: the lock is taken off first; a long name that no longer
\* names its node makes cmds.objectType raise, which is answered as a failure
_rename_node(sc, t, remove_str, o) ==
    LET there == sc.nodes[t.id].name = t.name
        unlocked == IF there THEN [sc EXCEPT !.nodes[t.id].locked = FALSE] ELSE sc
        new == NewName(t.name, remove_str, o)
    IN  IF ~there THEN [scene |-> sc, tag |-> "fail", calls |-> 0]
        ELSE IF new.base # <<>> /\ new.name # t.name
        THEN [scene |-> [unlocked EXCEPT !.nodes[t.id].name = new.name],
              tag |-> "arrow", calls |-> 1]
        ELSE [scene |-> unlocked, tag |-> "same", calls |-> 0]

\* the loop of _bulk_remove over the targets; cancel_at is the target after
\* which the progress window says isCancelled (0: never)
RECURSIVE BulkLoop(_, _, _, _, _, _, _)
BulkLoop(acc, targets, i, remove_str, o, dry_run, cancel_at) ==
    IF i > Len(targets) THEN acc
    ELSE
    LET t == targets[i]
        new == NewName(t.name, remove_str, o)
        step ==
            IF _is_referenced(t.id)
            THEN [acc EXCEPT !.log = Append(@, "skip")]
            ELSE IF dry_run
            THEN [acc EXCEPT !.log = Append(@, IF new.base # <<>> /\ new.name # t.name
                                               THEN "arrow" ELSE "same")]
            ELSE LET res == _rename_node(acc.scene, t, remove_str, o)
                 IN  [scene |-> res.scene,
                      total |-> acc.total,
                      renamed |-> acc.renamed + (IF res.tag = "arrow" THEN 1 ELSE 0),
                      log |-> Append(acc.log, res.tag),
                      calls |-> acc.calls + res.calls]
    IN  IF ~dry_run /\ cancel_at = i
        THEN [step EXCEPT !.log = Append(@, "cancel")]
        ELSE BulkLoop(step, targets, i + 1, remove_str, o, dry_run, cancel_at)

BulkResult(sc, total) ==
    [scene |-> sc, total |-> total, renamed |-> 0, log |-> <<>>, calls |-> 0]

\* A plausible slip: the dry run renames like the real run.
_bulk_remove_no_dry_run(sc, remove_str, o, dry_run, cancel_at) ==
    LET targets == _gather_targets(sc, o)
    IN  BulkLoop(BulkResult(sc, Len(targets)), targets, 1, remove_str, o, FALSE, 0)

_bulk_remove(sc, remove_str, o, dry_run, cancel_at) ==
    IF remove_str = <<>> THEN BulkResult(sc, 0)
    ELSE LET targets == _gather_targets(sc, o)
         IN  IF targets = <<>> THEN BulkResult(sc, 0)
             ELSE BulkLoop(BulkResult(sc, Len(targets)), targets, 1, remove_str, o,
                           dry_run, cancel_at)

(***************************************************************************)
(* SpecRemover: the buttons of the window and of the preview window,       *)
(* between which the user edits the fields and changes the selection.      *)
(***************************************************************************)
NrOptions(sh, co, de, ns, ic) ==
    [include_shapes |-> sh, include_connected |-> co, include_deformers |-> de,
     apply_ns |-> ns, ignore_case |-> ic]

\* the fields as _make_ui sets them, and other settings the user makes
DefaultOptions == NrOptions(FALSE, FALSE, FALSE, TRUE, TRUE)

OptionChoices ==
    {DefaultOptions, NrOptions(TRUE, TRUE, FALSE, TRUE, FALSE),
     NrOptions(TRUE, TRUE, TRUE, FALSE, TRUE)}

RemoveStrings == {<<>>, <<"N", "_">>, <<"n", "_">>}

NrSceneInit ==
    [nodes |-> [n \in NrNodes |->
        [name |-> IF n = NR_GROUP THEN <<"N", "_", "a">>
                  ELSE IF n = NR_JOINT THEN <<"n", "_", "b">>
                  ELSE IF n = NR_SHAPE THEN <<"N", "_", "s">>
                  ELSE IF n = NR_MATERIAL THEN <<"N", "_", ":", "c">>
                  ELSE IF n = NR_SKIN THEN <<"N", "_">>
                  ELSE <<"N", "_", "r">>,
         locked |-> n = NR_JOINT]],
     sel |-> {}]

NrLast(op, before, res, want_preview) ==
    [op |-> op, before |-> before, renamed |-> res.renamed, calls |-> res.calls,
     would |-> Len(SelectSeq(res.log, LAMBDA l : l = "arrow")),
     want_preview |-> want_preview]

InitRemover ==
    /\ nr_scene = NrSceneInit
    /\ nr_ui = [remove_str |-> <<"N", "_">>, opts |-> DefaultOptions,
                want_preview |-> TRUE, preview |-> NoneVal]
    /\ nr_last = NrLast("init", NrSceneInit, BulkResult(NrSceneInit, 0), TRUE)
    /\ EncIdle
    /\ MatchIdle
    /\ CtrlIdle
    /\ ShelfIdle
    /\ InstIdle
    /\ CvIdle
    /\ PkIdle
    /\ UeIdle
    /\ RcIdle

removerFrame == <<matchVars, encVars, scene, c_job, c_log, shelves, s_last,
                  instVars, cvVars, pkVars, ueVars, rcVars>>

\* _show_preview_dialog: the dry run, then the preview window with the
\* values of the fields bound to its 'この内容で実行' button
_show_preview_dialog(op) ==
    LET res == _bulk_remove(nr_scene, nr_ui.remove_str, nr_ui.opts, TRUE, 0)
    IN  /\ nr_scene' = res.scene
        /\ nr_ui' = [nr_ui EXCEPT !.preview =
                        Some([remove_str |-> nr_ui.remove_str, opts |-> nr_ui.opts])]
        /\ nr_last' = NrLast(op, nr_scene, res, nr_ui.want_preview)

\* 'プレビュー'
_do_preview ==
    /\ _show_preview_dialog("_do_preview")
    /\ UNCHANGED removerFrame

\* '一括リネーム'
_do_run ==
    /\ IF nr_ui.want_preview
       THEN _show_preview_dialog("_do_run")
       ELSE \E cancel_at \in 0..1 :
              LET res == _bulk_remove(nr_scene, nr_ui.remove_str, nr_ui.opts,
                                      FALSE, cancel_at)
              IN  /\ nr_scene' = res.scene
                  /\ nr_last' = NrLast("_do_run", nr_scene, res, FALSE)
                  /\ UNCHANGED nr_ui
    /\ UNCHANGED removerFrame

\* 'この内容で実行' of the preview window
_run_from_preview ==
    /\ ~IsNone(nr_ui.preview)
    /\ \E cancel_at \in 0..1 :
          LET bound == TheVal(nr_ui.preview)
              res == _bulk_remove(nr_scene, bound.remove_str, bound.opts,
                                  FALSE, cancel_at)
          IN  /\ nr_scene' = res.scene
              /\ nr_last' = NrLast("_run_from_preview", nr_scene, res,
                                   nr_ui.want_preview)
    /\ nr_ui' = [nr_ui EXCEPT !.preview = NoneVal]
    /\ UNCHANGED removerFrame

\* '閉じる' of the preview window
close_preview ==
    /\ ~IsNone(nr_ui.preview)
    /\ nr_ui' = [nr_ui EXCEPT !.preview = NoneVal]
    /\ nr_last' = NrLast("close_preview", nr_scene, BulkResult(nr_scene, 0),
                         nr_ui.want_preview)
    /\ UNCHANGED <<nr_scene, removerFrame>>

\* the user edits the text field and the check boxes
UserSetFields ==
    /\ \E rs \in RemoveStrings, o \in OptionChoices \cup {nr_ui.opts},
          wp \in BOOLEAN :
          /\ <<rs, o, wp>> # <<nr_ui.remove_str, nr_ui.opts, nr_ui.want_preview>>
          /\ nr_ui' = [nr_ui EXCEPT !.remove_str = rs, !.opts = o,
                                    !.want_preview = wp]
    /\ nr_last' = NrLast("user", nr_scene, BulkResult(nr_scene, 0),
                         nr_ui.want_preview)
    /\ UNCHANGED <<nr_scene, removerFrame>>

\* the user selects nodes in the outliner
UserSelectNodes ==
    /\ \E sel \in SUBSET {NR_GROUP, NR_JOINT, NR_REFERENCED} :
          /\ sel # nr_scene.sel
          /\ nr_scene' = [nr_scene EXCEPT !.sel = sel]
    /\ nr_last' = NrLast("user", nr_scene, BulkResult(nr_scene, 0),
                         nr_ui.want_preview)
    /\ UNCHANGED <<nr_ui, removerFrame>>

NextRemover ==
    _do_preview \/ _do_run \/ _run_from_preview \/ close_preview
        \/ UserSetFields \/ UserSelectNodes

SpecRemover == InitRemover /\ [][NextRemover]_vars

\* C13: the preview (the dry run of _bulk_remove) never calls rename, answers
\* renamed = 0 and leaves every node as it was; with 'show preview before
\* running' checked, '一括リネーム' does the same and opens the preview
\* window, and the names of the nodes change only by 'この内容で実行' of
\* the preview window or by '一括リネーム' with the box unchecked.
C13_PreviewRenamesNothing ==
    /\ (nr_last.op = "_do_preview" \/ (nr_last.op = "_do_run" /\ nr_last.want_preview))
          => /\ nr_last.calls = 0
             /\ nr_last.renamed = 0
             /\ nr_scene = nr_last.before
             /\ ~IsNone(nr_ui.preview)
    /\ (nr_scene.nodes # nr_last.before.nodes)
          => \/ nr_last.op = "_run_from_preview"
             \/ nr_last.op = "_do_run" /\ ~nr_last.want_preview

\* '一括リネーム' with the box checked, when the dry run lists names that
\* would change and a locked node is among the targets
C13_Witness ==
    /\ nr_last.op = "_do_run"
    /\ nr_last.want_preview
    /\ nr_last.would > 1
    /\ NR_GROUP \in nr_scene.sel
    /\ nr_scene.nodes[NR_JOINT].locked
    /\ nr_ui.opts.include_connected

(***************************************************************************)
(* Maya Controller Picker (src/maya/Simple_Picker/scripts/main.py): the    *)
(* QTabWidget of the window.  A tab has a title and the items of its list; *)
(* the current index counts from 1 and is 0 when there is no tab.          *)
(***************************************************************************)
PartsTab(title, items) == [title |-> title, items |-> items]

\* QTabWidget.addTab: the first tab of an empty widget becomes current
addTab(ui, tab) ==
    [tabs |-> Append(ui.tabs, tab),
     cur |-> IF ui.tabs = <<>> THEN 1 ELSE ui.cur]

\* QTabWidget.removeTab(index): the tab to the right takes the place of a
\* removed current tab, or the one to the left when it was the last
removeTab(ui, index) ==
    [tabs |-> SubSeq(ui.tabs, 1, index - 1) \o SubSeq(ui.tabs, index + 1, Len(ui.tabs)),
     cur |-> IF index < ui.cur THEN ui.cur - 1
             ELSE IF index = ui.cur /\ ui.cur = Len(ui.tabs) THEN ui.cur - 1
             ELSE ui.cur]

\* _add_tab_with_title: addTab and setCurrentWidget
_add_tab_with_title(ui, title) ==
    [tabs |-> Append(ui.tabs, PartsTab(title, <<>>)), cur |-> Len(ui.tabs) + 1]

_ensure_default_tab(ui) ==
    IF Len(ui.tabs) = 0 THEN _add_tab_with_title(ui, "Default") ELSE ui

\* _serialize_tabs: the "tabs" list of the preset
_serialize_tabs(ui) ==
    [i \in 1..Len(ui.tabs) |->
        [kind |-> "dict", title |-> Some(ui.tabs[i].title),
         items |-> Some(ui.tabs[i].items)]]

\* the loop of _deserialize_tabs over tabs_data: info.get raises on an
\* entry that is no dict, and set_items raises on items that are no list,
\* before the tab of the entry is added
RECURSIVE RestoreLoop(_, _, _)
RestoreLoop(ui, tabs_data, i) ==
    IF i > Len(tabs_data) THEN [ui |-> ui, raised |-> FALSE]
    ELSE LET info == tabs_data[i]
         IN  IF info.kind # "dict" THEN [ui |-> ui, raised |-> TRUE]
             ELSE IF info.items = <<"Bad">> THEN [ui |-> ui, raised |-> TRUE]
             ELSE RestoreLoop(
                    addTab(ui, PartsTab(IF IsNone(info.title) THEN "Untitled"
                                        ELSE TheVal(info.title),
                                        IF IsNone(info.items) THEN <<>>
                                        ELSE TheVal(info.items))),
                    tabs_data, i + 1)

\* the while loop of _deserialize_tabs
RECURSIVE RemoveAllTabs(_)
RemoveAllTabs(ui) ==
    IF Len(ui.tabs) > 0 THEN RemoveAllTabs(removeTab(ui, 1)) ELSE ui

\* _deserialize_tabs(tabs_data); on a tabs_data that is no list (is_list
\* false) the for statement raises
_deserialize_tabs(ui, tabs_data, is_list) ==
    LET emptied == RemoveAllTabs(ui)
    IN  IF ~is_list THEN [ui |-> emptied, raised |-> TRUE]
        ELSE LET restored == RestoreLoop(emptied, tabs_data, 1)
             IN  IF restored.raised THEN restored
                 ELSE [ui |-> [_ensure_default_tab(restored.ui) EXCEPT !.cur = 1],
                       raised |-> FALSE]

(***************************************************************************)
(* SpecPicker: the tab buttons and the save and load dialogs of the        *)
(* window; the preset file is written by the window or by hand.            *)
(***************************************************************************)
TabTitles == {"A", "B"}
ItemNames == {"c1"}

GoodEntry(title, items) == [kind |-> "dict", title |-> title, items |-> items]

\* entries of a preset written by hand: without title, without items, with
\* items that are no list, and an entry that is no object
EntryChoices ==
    {GoodEntry(Some("A"), Some(<<"c1">>)), GoodEntry(NoneVal, NoneVal),
     GoodEntry(Some("B"), <<"Bad">>),
     [kind |-> "other", title |-> NoneVal, items |-> NoneVal]}

\* the JSON documents: no file, no JSON, a list, an object without "tabs",
\* with "tabs": null, and with a list of entries
PresetFile(kind, tabs) == [kind |-> kind, tabs |-> tabs]

FileChoices ==
    {PresetFile("absent", <<>>), PresetFile("not_json", <<>>),
     PresetFile("list", <<>>), PresetFile("dict_no_tabs", <<>>),
     PresetFile("dict_null_tabs", <<>>), PresetFile("dict", <<>>)}
    \cup {PresetFile("dict", <<GoodEntry(NoneVal, NoneVal), e>>) :
            e \in EntryChoices}

PkLast(op, outcome) ==
    [op |-> op, outcome |-> outcome, before |-> pk_ui,
     no_tabs |-> pk_file.tabs = <<>>]

\* ControllerPicker.__init__: _ensure_default_tab on the new QTabWidget
InitPicker ==
    /\ pk_ui = _ensure_default_tab([tabs |-> <<>>, cur |-> 0])
    /\ pk_file = PresetFile("absent", <<>>)
    /\ pk_last = [op |-> "init", outcome |-> "", before |-> [tabs |-> <<>>, cur |-> 0],
                  no_tabs |-> TRUE]
    /\ EncIdle
    /\ MatchIdle
    /\ CtrlIdle
    /\ ShelfIdle
    /\ InstIdle
    /\ CvIdle
    /\ NrIdle
    /\ UeIdle
    /\ RcIdle

pickerFrame == <<matchVars, encVars, scene, c_job, c_log, shelves, s_last,
                 instVars, cvVars, nrVars, ueVars, rcVars>>

\* '新規タブ': the input dialog answers (text, ok)
_create_new_tab ==
    /\ Len(pk_ui.tabs) < MaxTabs
    /\ \E text \in TabTitles \cup {""}, ok \in BOOLEAN :
          IF ok /\ text # ""
          THEN /\ pk_ui' = _add_tab_with_title(pk_ui, text)
               /\ pk_last' = PkLast("_create_new_tab", "added")
          ELSE /\ pk_ui' = pk_ui
               /\ pk_last' = PkLast("_create_new_tab", "cancelled")
    /\ UNCHANGED <<pk_file, pickerFrame>>

\* 'タブ名変更'
_rename_current_tab ==
    /\ \E text \in TabTitles \cup {""}, ok \in BOOLEAN :
          IF pk_ui.cur >= 1 /\ ok /\ text # "" /\ text # pk_ui.tabs[pk_ui.cur].title
          THEN /\ pk_ui' = [pk_ui EXCEPT !.tabs[pk_ui.cur].title = text]
               /\ pk_last' = PkLast("_rename_current_tab", "renamed")
          ELSE /\ pk_ui' = pk_ui
               /\ pk_last' = PkLast("_rename_current_tab", "cancelled")
    /\ UNCHANGED <<pk_file, pickerFrame>>

\* tabCloseRequested(index): the close button of a tab
_close_tab ==
    /\ \E index \in 1..Len(pk_ui.tabs) :
          IF Len(pk_ui.tabs) <= 1
          THEN /\ pk_ui' = pk_ui
               /\ pk_last' = PkLast("_close_tab", "refused")
          ELSE /\ pk_ui' = removeTab(pk_ui, index)
               /\ pk_last' = PkLast("_close_tab", "closed")
    /\ UNCHANGED <<pk_file, pickerFrame>>

\* 'Add to Current Tab': the picked names that the tab does not hold yet
_add_selected_scan_to_current_tab ==
    /\ \E n \in ItemNames :
          IF pk_ui.cur >= 1
                /\ \A i \in 1..Len(pk_ui.tabs[pk_ui.cur].items) :
                      pk_ui.tabs[pk_ui.cur].items[i] # n
          THEN /\ pk_ui' = [pk_ui EXCEPT !.tabs[pk_ui.cur].items = Append(@, n)]
               /\ pk_last' = PkLast("_add_selected_scan_to_current_tab", "added")
          ELSE /\ pk_ui' = pk_ui
               /\ pk_last' = PkLast("_add_selected_scan_to_current_tab", "none")
    /\ UNCHANGED <<pk_file, pickerFrame>>

\* '保存…': the file dialog answers a name or nothing
_save_tabs_dialog ==
    /\ \E chosen \in BOOLEAN :
          IF chosen
          THEN /\ pk_file' = PresetFile("dict", _serialize_tabs(pk_ui))
               /\ pk_last' = PkLast("_save_tabs_dialog", "saved")
          ELSE /\ pk_file' = pk_file
               /\ pk_last' = PkLast("_save_tabs_dialog", "cancelled")
    /\ UNCHANGED <<pk_ui, pickerFrame>>

\* '読込…': open and json.load raise on a missing file and on text that is
\* no JSON, data.get raises on a JSON list; a missing "tabs" is []
_load_tabs_dialog ==
    /\ \E chosen \in BOOLEAN :
          IF ~chosen
          THEN /\ pk_ui' = pk_ui
               /\ pk_last' = PkLast("_load_tabs_dialog", "cancelled")
          ELSE IF pk_file.kind \in {"absent", "not_json", "list"}
          THEN /\ pk_ui' = pk_ui
               /\ pk_last' = PkLast("_load_tabs_dialog", "failed")
          ELSE LET res == _deserialize_tabs(pk_ui, pk_file.tabs,
                                            pk_file.kind # "dict_null_tabs")
               IN  /\ pk_ui' = res.ui
                   /\ pk_last' = PkLast("_load_tabs_dialog",
                                        IF res.raised THEN "failed" ELSE "loaded")
    /\ UNCHANGED <<pk_file, pickerFrame>>

\* the user puts another file where the dialogs look
UserWriteFile ==
    /\ \E f \in FileChoices :
          /\ f # pk_file
          /\ pk_file' = f
    /\ pk_last' = PkLast("user", "")
    /\ UNCHANGED <<pk_ui, pickerFrame>>

NextPicker ==
    _create_new_tab \/ _rename_current_tab \/ _close_tab
        \/ _add_selected_scan_to_current_tab \/ _save_tabs_dialog
        \/ _load_tabs_dialog \/ UserWriteFile

SpecPicker == InitPicker /\ [][NextPicker]_vars

\* C14: the Controller Picker always has at least one tab; a request to close
\* the last remaining tab leaves the tab and its items unchanged, and loading
\* a preset with no tabs leaves exactly one tab, titled 'Default'.
C14_AtLeastOneTab ==
    /\ Len(pk_ui.tabs) >= 1
    /\ (pk_last.op = "_close_tab" /\ Len(pk_last.before.tabs) = 1)
          => pk_ui = pk_last.before
    /\ (/\ pk_last.op = "_load_tabs_dialog"
        /\ pk_last.outcome = "loaded"
        /\ pk_last.no_tabs)
          => pk_ui = [tabs |-> <<PartsTab("Default", <<>>)>>, cur |-> 1]

(***************************************************************************)
(* SpecSequence: the Unreal-side main.py builds level sequences from the   *)
(* FBX files that Houdini exported (houdini-unreal/main.py and             *)
(* make_sequence.py).  A name is a tuple of characters.  Between two runs  *)
(* of the script the artist edits the project in the editor.               *)
(***************************************************************************)
\* constants.target_sequence_name: the word in front of the scene number
target_sequence_name == <<"s">>

\* the default of the parameter pad of pic_name_for_sequence
PAD == 3

\* str.lower on one character of the names drawn here
Lower(c) == IF c = "S" THEN "s" ELSE c

LowerAll(t) == [i \in 1..Len(t) |-> Lower(t[i])]

\* \d on one character of the names drawn here
IsDigit(c) == c \in {"0", "1", "2"}

\* (\d+): the length of the run of digits of name that starts at i
RECURSIVE DigitRun(_, _)
DigitRun(name, i) ==
    IF i <= Len(name) /\ IsDigit(name[i]) THEN 1 + DigitRun(name, i + 1) ELSE 0

\* fr'({picname})(\d+)' with re.IGNORECASE matches name at i
PickAt(name, picname, i) ==
    /\ i + Len(picname) - 1 <= Len(name)
    /\ LowerAll(SubSeq(name, i, i + Len(picname) - 1)) = LowerAll(picname)
    /\ DigitRun(name, i + Len(picname)) >= 1

\* str.zfill
zfill(t, pad) ==
    IF Len(t) >= pad THEN t ELSE [i \in 1..(pad - Len(t)) |-> "0"] \o t

pic_name_for_sequence(name, picname, pad) ==
    LET hits == {i \in 1..Len(name) : PickAt(name, picname, i)}
    IN IF hits = {}
       THEN <<"L", "S", "_">> \o picname \o zfill(<<"0">>, pad)
       ELSE LET i == CHOOSE k \in hits : \A j \in hits : k <= j
                e == i + Len(picname)
                base_name == LowerAll(SubSeq(name, i, e - 1))
                number == SubSeq(name, e, e + DigitRun(name, e) - 1)
            IN <<"L", "S", "_">> \o base_name \o zfill(number, pad)

\* Path(name).stem: the name without its last suffix
PathStem(name) ==
    LET dots == {i \in 2..Len(name) : name[i] = "."}
    IN IF dots = {} \/ name[Len(name)] = "." THEN name
       ELSE SubSeq(name, 1, (CHOOSE k \in dots : \A j \in dots : j <= k) - 1)

\* a binding of a level sequence: its display name, its animation tracks
Binding(name, anims) == [name |-> name, anims |-> anims]

NoSequence == [exists |-> FALSE, bindings |-> <<>>]

does_asset_exist(project, sequence_stem) ==
    /\ sequence_stem \in DOMAIN project
    /\ project[sequence_stem].exists

\* the new value of the module's binding_name_list
get_match_binding(project, sequence_stem) ==
    LET binding_exist_list == project[sequence_stem].bindings
    IN [k \in 1..Len(binding_exist_list) |-> binding_exist_list[k].name]

\* make_sequence: the project and binding_name_list after the call
make_sequence(project, binding_name_list, sequence_stem) ==
    IF does_asset_exist(project, sequence_stem)
    THEN [project |-> project,
          binding_name_list |-> get_match_binding(project, sequence_stem)]
    ELSE [project |-> [project EXCEPT ![sequence_stem] =
                          [exists |-> TRUE, bindings |-> <<>>]],
          binding_name_list |-> binding_name_list]

\* delete_animation_in_binding, then add_animation_track(.., False)
ReplaceAnimation(binding) == Binding(binding.name, 1)

\* assign_to_sequence: the project after the call, the branch it took and
\* the exception that left it.  mesh_found: some skeletal mesh of the
\* project has the last part of the stem in its name
assign_to_sequence(project, binding_name_list, sequence_stem, current_fbx_name, mesh_found) ==
    LET animFBX_stem == PathStem(current_fbx_name)
        bindings == project[sequence_stem].bindings
        same == {k \in 1..Len(bindings) : bindings[k].name = animFBX_stem}
    IN IF ~mesh_found
       THEN [project |-> project, branch |-> "none", exc |-> "UnboundLocalError"]
       ELSE IF animFBX_stem \in Range(binding_name_list)
       THEN IF same = {}
            THEN [project |-> project, branch |-> "replace",
                  exc |-> "UnboundLocalError"]
            ELSE LET current_binding == CHOOSE k \in same : \A j \in same : j <= k
                 IN [project |-> [project EXCEPT ![sequence_stem].bindings[current_binding] =
                                     ReplaceAnimation(bindings[current_binding])],
                     branch |-> "replace", exc |-> ""]
       ELSE [project |-> [project EXCEPT ![sequence_stem].bindings =
                             Append(bindings, Binding(animFBX_stem, 1))],
             branch |-> "new", exc |-> ""]

MaxFbx == 2         \* most FBX files in the list of one run in SpecSequence
MaxBindings == 2    \* most bindings of a sequence that the artist adds to

FbxStems == {<<"a", "S", "1">>, <<"a", "s", "2">>, <<"c">>}

FbxFile(stem) == stem \o <<".", "f", "b", "x">>

FbxNames == {FbxFile(s) : s \in FbxStems}

FbxLists == UNION {[1..n -> FbxNames] : n \in 0..MaxFbx}

SequenceStems == {pic_name_for_sequence(n, target_sequence_name, PAD) : n \in FbxNames}

UeIdleJob == [pc |-> "idle", imported_fbxs |-> <<>>, i |-> 0,
              sequence_stem |-> <<>>, binding_name_list |-> <<>>]

InitSequence ==
    /\ ue_project = [s \in SequenceStems |-> NoSequence]
    /\ ue_job = UeIdleJob
    /\ ue_log = <<>>
    /\ EncIdle
    /\ MatchIdle
    /\ CtrlIdle
    /\ ShelfIdle
    /\ InstIdle
    /\ CvIdle
    /\ NrIdle
    /\ PkIdle
    /\ RcIdle

sequenceFrame == <<matchVars, encVars, scene, c_job, c_log, shelves, s_last,
                   instVars, cvVars, nrVars, pkVars, rcVars>>

\* main.py lines 1-20: the modules are reloaded, so binding_name_list is
\* empty again, and every FBX is imported as an animation asset
MainStart ==
    /\ ue_job.pc = "idle"
    /\ \E imported_fbxs \in FbxLists :
          ue_job' = [pc |-> IF imported_fbxs = <<>> THEN "idle" ELSE "make",
                     imported_fbxs |-> imported_fbxs, i |-> 1,
                     sequence_stem |-> <<>>, binding_name_list |-> <<>>]
    /\ ue_log' = <<>>
    /\ UNCHANGED <<ue_project, sequenceFrame>>

\* main.py lines 26-30 for the FBX at position i
MainMakeSequence ==
    /\ ue_job.pc = "make"
    /\ LET name == ue_job.imported_fbxs[ue_job.i]
           sequence_stem == pic_name_for_sequence(name, target_sequence_name, PAD)
           r == make_sequence(ue_project, ue_job.binding_name_list, sequence_stem)
       IN /\ ue_project' = r.project
          /\ ue_job' = [ue_job EXCEPT !.pc = "assign",
                                      !.sequence_stem = sequence_stem,
                                      !.binding_name_list = r.binding_name_list]
    /\ UNCHANGED <<ue_log, sequenceFrame>>

\* main.py line 34 for the FBX at position i; an exception ends the script
MainAssignToSequence ==
    /\ ue_job.pc = "assign"
    /\ \E mesh_found \in BOOLEAN :
          LET name == ue_job.imported_fbxs[ue_job.i]
              before == ue_project[ue_job.sequence_stem].bindings
              r == assign_to_sequence(ue_project, ue_job.binding_name_list,
                                      ue_job.sequence_stem, name, mesh_found)
          IN /\ ue_project' = r.project
             /\ ue_log' = Append(ue_log,
                   [stem |-> PathStem(name), sequence_stem |-> ue_job.sequence_stem,
                    branch |-> r.branch, exc |-> r.exc, before |-> before,
                    after |-> r.project[ue_job.sequence_stem].bindings])
             /\ ue_job' = IF r.exc # "" \/ ue_job.i = Len(ue_job.imported_fbxs)
                          THEN [ue_job EXCEPT !.pc = "idle"]
                          ELSE [ue_job EXCEPT !.pc = "make", !.i = ue_job.i + 1]
    /\ UNCHANGED sequenceFrame

\* the artist deletes a level sequence in the content browser
UserDeleteSequence ==
    /\ ue_job.pc = "idle"
    /\ \E s \in SequenceStems :
          /\ ue_project[s].exists
          /\ ue_project' = [ue_project EXCEPT ![s] = NoSequence]
    /\ UNCHANGED <<ue_job, ue_log, sequenceFrame>>

\* the artist copies a binding of one sequence and pastes it into another
UserCopyBinding ==
    /\ ue_job.pc = "idle"
    /\ \E s \in SequenceStems, t \in SequenceStems :
          /\ s # t
          /\ ue_project[s].exists
          /\ ue_project[t].exists
          /\ Len(ue_project[t].bindings) < MaxBindings
          /\ \E k \in 1..Len(ue_project[s].bindings) :
                /\ \A j \in 1..Len(ue_project[t].bindings) :
                      ue_project[t].bindings[j].name # ue_project[s].bindings[k].name
                /\ ue_project' = [ue_project EXCEPT ![t].bindings =
                                     Append(@, ue_project[s].bindings[k])]
    /\ UNCHANGED <<ue_job, ue_log, sequenceFrame>>

NextSequence ==
    \/ MainStart
    \/ MainMakeSequence
    \/ MainAssignToSequence
    \/ UserDeleteSequence
    \/ UserCopyBinding

SpecSequence == InitSequence /\ [][NextSequence]_vars

BindingNames(bindings) == [k \in 1..Len(bindings) |-> bindings[k].name]

\* C15: for every FBX that the script assigned, the 'replace animation'
\* branch was taken exactly when the sequence already held a binding with
\* the name of the FBX's stem, and otherwise one new binding with that name
\* was added at the end, so that the script never gives a sequence a second
\* binding of a name
C15_ReplaceIffBound ==
    \A k \in 1..Len(ue_log) :
        LET e == ue_log[k]
        IN e.branch # "none" =>
              /\ (e.branch = "replace") <=> (e.stem \in Range(BindingNames(e.before)))
              /\ (e.branch = "new") => (e.after = Append(e.before, Binding(e.stem, 1)))
              /\ (e.branch = "replace") => (e.exc = "")

(***************************************************************************)
(* SpecRemote: the Houdini-side export_fbx.py exports one FBX per ROP and  *)
(* calls remote_ctrl.run_and_send_arguments.  RemoteExecution is Unreal's  *)
(* remote_execution plugin: while it is started its listener keeps the     *)
(* list remote_nodes up to date, and opening the command connection or     *)
(* running the command may raise.  A position of the function is the       *)
(* number of its line in remote_ctrl.py, 0 when it is not running.         *)
(***************************************************************************)
MaxRops == 2        \* most FBX export nodes of the scene in SpecRemote
MaxNodes == 2       \* most Unreal editors that answer in SpecRemote

\* " ".join(names)
RECURSIVE JoinSpace(_)
JoinSpace(names) ==
    IF names = <<>> THEN <<>>
    ELSE IF Len(names) = 1 THEN names[1]
    ELSE names[1] \o <<" ">> \o JoinSpace(Tail(names))

\* export_fbx.set_arg: one string, here a tuple of its parts
set_arg(export_path, export_fbx_names) ==
    <<export_path, " ">> \o JoinSpace(export_fbx_names)

\* f"{mainNom_name}_CHR_{rop.name()}.fbx"
ExportedName(mainNom_name, rop) == <<mainNom_name, "_CHR_", rop, ".fbx">>

\* remote_exec = RemoteExecution() of a freshly loaded remote_ctrl
NewRemoteExecution ==
    [started |-> FALSE, starts |-> 0, remote_nodes |-> <<>>,
     connection |-> NoneVal, commands |-> <<>>]

\* A plausible slip: remote_exec.stop() indented into the if block
run_and_send_arguments_stop_in_if(line, remote_nodes) ==
    CASE line = 22 -> 23
      [] line = 23 -> 25
      [] line = 25 -> IF remote_nodes # <<>> THEN 26 ELSE 0
      [] line = 26 -> 27
      [] line = 27 -> 29
      [] line = 29 -> 30
      [] OTHER -> 0

\* run_and_send_arguments: the line that follows `line` when it does not raise
run_and_send_arguments(line, remote_nodes) ==
    CASE line = 22 -> 23
      [] line = 23 -> 25
      [] line = 25 -> IF remote_nodes # <<>> THEN 26 ELSE 30
      [] line = 26 -> 27
      [] line = 27 -> 29
      [] line = 29 -> 30
      [] OTHER -> 0

RopNames == {"bob", "mike"}

RopLists == UNION {[1..n -> RopNames] : n \in 0..MaxRops}

NodeIds == {"n1", "n2"}

NodeLists ==
    {l \in UNION {[1..n -> NodeIds] : n \in 0..MaxNodes} :
        \A a \in 1..Len(l), b \in 1..Len(l) : a # b => l[a] # l[b]}

RcIdleJob == [line |-> 0, args |-> <<>>, tested |-> <<>>, first |-> NoneVal,
              outcome |-> "none"]

InitRemote ==
    /\ rc_exec = NewRemoteExecution
    /\ rc_job = RcIdleJob
    /\ EncIdle
    /\ MatchIdle
    /\ CtrlIdle
    /\ ShelfIdle
    /\ InstIdle
    /\ CvIdle
    /\ NrIdle
    /\ PkIdle
    /\ UeIdle

remoteFrame == <<matchVars, encVars, scene, c_job, c_log, shelves, s_last,
                 instVars, cvVars, nrVars, pkVars, ueVars>>

\* the function goes on to its next line, or returns
Advance ==
    LET next == run_and_send_arguments(rc_job.line, rc_exec.remote_nodes)
    IN [rc_job EXCEPT !.line = next,
                      !.outcome = IF next = 0 THEN "returned" ELSE @]

Raise(exc) == [rc_job EXCEPT !.line = 0, !.outcome = exc]

\* export_fbx.py lines 89-102: the script is run in a scene
ExportFbx ==
    /\ rc_job.line = 0
    /\ \E fbx_export_node \in RopLists :
          IF fbx_export_node # <<>>
          THEN LET exported_list ==
                       [k \in 1..Len(fbx_export_node) |->
                           ExportedName("scene001", fbx_export_node[k])]
                   send_arg == set_arg("export_fbx/", exported_list)
               IN /\ rc_exec' = NewRemoteExecution
                  /\ rc_job' = [RcIdleJob EXCEPT !.line = 22, !.args = send_arg,
                                                  !.outcome = "running"]
          ELSE /\ rc_job' = [rc_job EXCEPT !.outcome = "no export node"]
               /\ UNCHANGED rc_exec
    /\ UNCHANGED remoteFrame

\* line 22: remote_exec.start()
RcStart ==
    /\ rc_job.line = 22
    /\ rc_exec' = [rc_exec EXCEPT !.started = TRUE, !.starts = @ + 1]
    /\ rc_job' = Advance
    /\ UNCHANGED remoteFrame

\* line 23: time.sleep(1)
RcSleep ==
    /\ rc_job.line = 23
    /\ rc_job' = Advance
    /\ UNCHANGED <<rc_exec, remoteFrame>>

\* the listener of a started RemoteExecution: editors answer or time out
RcListen ==
    /\ rc_exec.started
    /\ rc_job.line # 0
    /\ \E nodes \in NodeLists :
          /\ nodes # rc_exec.remote_nodes
          /\ rc_exec' = [rc_exec EXCEPT !.remote_nodes = nodes]
    /\ UNCHANGED <<rc_job, remoteFrame>>

\* line 25: if remote_exec.remote_nodes
RcTest ==
    /\ rc_job.line = 25
    /\ rc_job' = [Advance EXCEPT !.tested = rc_exec.remote_nodes]
    /\ UNCHANGED <<rc_exec, remoteFrame>>

\* line 26: remote_exec.open_command_connection(remote_exec.remote_nodes[0])
RcOpen ==
    /\ rc_job.line = 26
    /\ \E ok \in BOOLEAN :
          IF rc_exec.remote_nodes = <<>>
          THEN /\ rc_job' = Raise("IndexError")
               /\ UNCHANGED rc_exec
          ELSE IF ok
          THEN /\ rc_exec' = [rc_exec EXCEPT !.connection = Some(rc_exec.remote_nodes[1])]
               /\ rc_job' = [Advance EXCEPT !.first = Some(rc_exec.remote_nodes[1])]
          ELSE /\ rc_job' = Raise("RuntimeError")
               /\ UNCHANGED rc_exec
    /\ UNCHANGED remoteFrame

\* line 27: remote_exec.run_command(f"main.py {args}")
RcRunCommand ==
    /\ rc_job.line = 27
    /\ \E ok \in BOOLEAN :
          IF ok
          THEN /\ rc_exec' = [rc_exec EXCEPT !.commands =
                                 Append(@, [node |-> rc_exec.connection[2],
                                            command |-> <<"main.py", " ">> \o rc_job.args])]
               /\ rc_job' = Advance
          ELSE /\ rc_job' = Raise("RuntimeError")
               /\ UNCHANGED rc_exec
    /\ UNCHANGED remoteFrame

\* line 29: print("done")
RcPrint ==
    /\ rc_job.line = 29
    /\ rc_job' = Advance
    /\ UNCHANGED <<rc_exec, remoteFrame>>

\* line 30: remote_exec.stop()
RcStop ==
    /\ rc_job.line = 30
    /\ rc_exec' = [rc_exec EXCEPT !.started = FALSE, !.remote_nodes = <<>>,
                                  !.connection = NoneVal]
    /\ rc_job' = Advance
    /\ UNCHANGED remoteFrame

NextRemote ==
    \/ ExportFbx
    \/ RcStart
    \/ RcSleep
    \/ RcListen
    \/ RcTest
    \/ RcOpen
    \/ RcRunCommand
    \/ RcPrint
    \/ RcStop

SpecRemote == InitRemote /\ [][NextRemote]_vars

C16_WitnessNoNode ==
    /\ rc_job.outcome = "returned"
    /\ rc_job.tested = <<>>
    /\ rc_exec.commands = <<>>
    /\ rc_exec.starts = 1

(***************************************************************************)
(* SpecMatch: match_store_key on every store name and every preset within  *)
(* the bounds.  Preset keys are as load_preset leaves them: stripped.      *)
(***************************************************************************)
MatchNames == StringsUpTo(MaxNameLen)

MatchKeys == {Strip(k) : k \in StringsUpTo(MaxKeyLen)}

RECURSIVE KeySeqs(_)
KeySeqs(n) ==
    IF n = 0 THEN {<<>>}
    ELSE LET shorter == KeySeqs(n - 1)
         IN  shorter \cup
             {Append(ks, k) : ks \in shorter, k \in MatchKeys}

DistinctSeq(ks) == \A i, j \in 1..Len(ks) : i # j => ks[i] # ks[j]

MatchMappings ==
    {[i \in 1..Len(ks) |-> Entry(ks[i], <<"c">>, <<"s">>)] :
        ks \in {x \in KeySeqs(MaxKeys) : DistinctSeq(x)}}

InitMatch ==
    /\ m_store \in MatchNames
    /\ m_preset \in MatchMappings
    /\ m_result = <<"unset">>
    /\ EncIdle
    /\ MayaIdle

CallMatch ==
    /\ m_result = <<"unset">>
    /\ m_result' = match_store_key(m_store, m_preset)
    /\ UNCHANGED <<m_store, m_preset, encVars, mayaVars>>

NextMatch == CallMatch

SpecMatch == InitMatch /\ [][NextMatch]_vars

\* C1: match_store_key returns a key k of the preset that is non-empty, is a
\* substring of the stripped store name and is at least as long as every
\* preset key that is a substring of it; it returns None exactly when the
\* stripped store name is empty or no non-empty preset key is a substring.
C1_LongestMatch ==
    m_result # <<"unset">> =>
        LET s == Strip(m_store)
            hits == {k \in KeySet(m_preset) : k # <<>> /\ Contains(s, k)}
        IN  /\ IsNone(m_result) <=> (s = <<>> \/ hits = {})
            /\ ~IsNone(m_result) =>
                  /\ TheVal(m_result) \in KeySet(m_preset)
                  /\ TheVal(m_result) # <<>>
                  /\ Contains(s, TheVal(m_result))
                  /\ \A k \in KeySet(m_preset) :
                        Contains(s, k) => Len(k) <= Len(TheVal(m_result))

\* A call where two keys of different lengths both match, and the store name
\* had whitespace to strip.
C1_Witness ==
    /\ m_result # <<"unset">>
    /\ ~IsNone(m_result)
    /\ Strip(m_store) # m_store
    /\ \E k \in KeySet(m_preset) :
          /\ k # <<>>
          /\ Contains(Strip(m_store), k)
          /\ Len(k) < Len(TheVal(m_result))
          /\ m_preset[1].key = k
====
